---- MODULE Spec2Model ----
(***************************************************************************)
(* Model of the tezcat vector index: the sql.js adapter's LSH tables, the  *)
(* index build (generateVectorIndex), the candidate search                 *)
(* (getSimilarVectors), the search service's vectorSearch and the plugin   *)
(* operations that call them.  One action is one run of a handler between  *)
(* two suspension points: the in-memory sql.js statements are synchronous, *)
(* the handler yields only at a real I/O await (adapter.writeBinary in     *)
(* save(), vault.read, the embedding provider).                            *)
(***************************************************************************)
EXTENDS Integers, Sequences, FiniteSets, TLC

\* ---------------------------------------------------------------- bounds
MaxOps == 2          \* plugin operations started in one behaviour
MaxNotes == 2        \* markdown files in the vault
MaxTasks == 2        \* handlers in flight at once
MaxCount == 5        \* largest vectorCount handed to createHashFunctions
MaxBucketSize == 11  \* largest bucket of a drawn population
MaxBuckets == 3      \* most buckets of a drawn population
MaxLimit == 2        \* largest limit handed to getSimilarVectors

\* settings.vectorSize, the dimension of the provider's embeddings
vectorSize == 2

Paths == 1..MaxNotes
Tasks == 1..MaxTasks

\* file contents; content c is embedded as Embedding(c)
Contents == 1..2
NoFile == 0

\* the provider's quantized int8 embedding of a text
Embedding(c) ==
    [i \in 1..vectorSize |->
        IF c = 1 THEN 1 ELSE (IF i = 1 THEN 1 ELSE -1)]

\* values a component of a projection vector is drawn from (sign is all that matters)
ProjectionValues == {-1, 1}
Projections == [1..vectorSize -> ProjectionValues]

\* ------------------------------------------------------------ VectorUtils
\* Math.log2(0) is -Infinity and Math.ceil keeps it
NegInfinity == -1000

RECURSIVE Pow2(_)
Pow2(k) == IF k = 0 THEN 1 ELSE 2 * Pow2(k - 1)

\* Math.ceil(Math.log2(n)) for an integer n >= 0
CeilLog2(n) ==
    IF n = 0 THEN NegInfinity
    ELSE CHOOSE k \in 0..n : Pow2(k) >= n /\ (k = 0 \/ Pow2(k - 1) < n)

\* the loop "for (i = 0; i < numHashFunctions; i++)" runs max(0, n) times
LoopCount(n) == IF n > 0 THEN n ELSE 0

\* createHashFunctions: every result the random draws can give
CreateHashFunctions(vectorCount, vectorDimensions) ==
    LET numHashFunctions == CeilLog2(vectorCount)
    IN  { [numHashFunctions |-> numHashFunctions,
           hashFunctions |-> [i \in 1..LoopCount(numHashFunctions) |->
                                 [hashIndex |-> i - 1, projectionMatrix |-> pm[i]]]] :
          pm \in [1..LoopCount(numHashFunctions) -> [1..vectorDimensions -> ProjectionValues]] }

RECURSIVE SumTo(_, _, _)
SumTo(a, b, n) == IF n = 0 THEN 0 ELSE SumTo(a, b, n - 1) + a[n] * b[n]

Threw(msg) == [threw |-> TRUE, error |-> msg]
Returned(v) == [threw |-> FALSE, value |-> v]

\* dotProduct(vector, projectionMatrix)
DotProduct(vector, projectionMatrix) ==
    IF Len(vector) # Len(projectionMatrix)
    THEN Threw("Vectors must have the same length")
    ELSE Returned(SumTo(vector, projectionMatrix, Len(vector)))

\* computeHashVector with "dotProduct >= 0 ? 1 : 0": a zero dot product gives 1
ComputeHashVector_ZeroIsOne(vector, hashFunctions, expectedDimensions) ==
    IF Len(vector) # expectedDimensions
    THEN Threw("Input vector has wrong dimensions")
    ELSE IF Len(hashFunctions) = 0
    THEN Threw("No hash functions provided")
    ELSE IF \E i \in 1..Len(hashFunctions) :
                DotProduct(vector, hashFunctions[i].projectionMatrix).threw
    THEN Threw("Vectors must have the same length")
    ELSE Returned([i \in 1..Len(hashFunctions) |->
                     IF DotProduct(vector, hashFunctions[i].projectionMatrix).value >= 0
                     THEN 1 ELSE 0])

\* computeHashVector that hashes with the projections it can and skips the rest
ComputeHashVector_SkipsMismatch(vector, hashFunctions, expectedDimensions) ==
    IF Len(vector) # expectedDimensions
    THEN Threw("Input vector has wrong dimensions")
    ELSE IF Len(hashFunctions) = 0
    THEN Threw("No hash functions provided")
    ELSE Returned([i \in 1..Len(hashFunctions) |->
                     IF DotProduct(vector, hashFunctions[i].projectionMatrix).threw
                     THEN 0
                     ELSE IF DotProduct(vector, hashFunctions[i].projectionMatrix).value > 0
                     THEN 1 ELSE 0])

\* computeHashVector(vector, hashFunctions, expectedDimensions)
ComputeHashVector(vector, hashFunctions, expectedDimensions) ==
    IF Len(vector) # expectedDimensions
    THEN Threw("Input vector has wrong dimensions")
    ELSE IF Len(hashFunctions) = 0
    THEN Threw("No hash functions provided")
    ELSE IF \E i \in 1..Len(hashFunctions) :
                DotProduct(vector, hashFunctions[i].projectionMatrix).threw
    THEN Threw("Vectors must have the same length")
    ELSE Returned([i \in 1..Len(hashFunctions) |->
                     IF DotProduct(vector, hashFunctions[i].projectionMatrix).value > 0
                     THEN 1 ELSE 0])

\* hammingDistance counting only the bits set in hash1 and clear in hash2
HammingDistance_OneSided(hash1, hash2) ==
    IF Len(hash1) # Len(hash2)
    THEN Threw("Hash vectors must have the same length")
    ELSE Returned(Cardinality({i \in 1..Len(hash1) : hash1[i] = 1 /\ hash2[i] = 0}))

\* VectorUtils.hammingDistance(hash1, hash2)
HammingDistance(hash1, hash2) ==
    IF Len(hash1) # Len(hash2)
    THEN Threw("Hash vectors must have the same length")
    ELSE Returned(Cardinality({i \in 1..Len(hash1) : hash1[i] # hash2[i]}))

\* hashVector.join(''): the bucket_hash text, one character per bit
JoinBits(hashVector) ==
    [i \in 1..Len(hashVector) |-> IF hashVector[i] = 1 THEN "1" ELSE "0"]

\* bucketHash.split('').map(Number)
SplitBits(bucketHash) ==
    [i \in 1..Len(bucketHash) |-> IF bucketHash[i] = "1" THEN 1 ELSE 0]


\* ------------------------------------------------------------------ state
VARIABLES
    vault,                  \* the vault: path -> content of the markdown file, NoFile when absent
    notes,                  \* notes table, rows in insertion order
    vectors,                \* vectors table, rows in insertion order
    lshTables,              \* lsh_configs and lsh_hash_functions exist (dropAllTables drops them)
    lsh_configs,            \* lsh_configs rows
    lsh_hash_functions,     \* lsh_hash_functions rows
    lsh_buckets,            \* lsh_buckets rows
    isOperationInProgress,  \* Tezcat.isOperationInProgress
    isSystemValid,          \* Tezcat.isSystemValid
    task,                   \* the handlers in flight: kind, position and locals
    ops,                    \* operations started so far
    fnIn,                   \* argument drawn for a pure function
    fnOut                   \* what the function returned for fnIn

vars == <<vault, notes, vectors, lshTables, lsh_configs, lsh_hash_functions,
          lsh_buckets, isOperationInProgress, isSystemValid, task, ops,
          fnIn, fnOut>>

\* the database the adapter holds, as one value
DB == [notes |-> notes, vectors |-> vectors, lshTables |-> lshTables,
       lsh_configs |-> lsh_configs, lsh_hash_functions |-> lsh_hash_functions,
       lsh_buckets |-> lsh_buckets]

SetDB(d) ==
    /\ notes' = d.notes
    /\ vectors' = d.vectors
    /\ lshTables' = d.lshTables
    /\ lsh_configs' = d.lsh_configs
    /\ lsh_hash_functions' = d.lsh_hash_functions
    /\ lsh_buckets' = d.lsh_buckets

\* the three LSH tables of a database
LSHOf(d) == [lshTables |-> d.lshTables, lsh_configs |-> d.lsh_configs,
             lsh_hash_functions |-> d.lsh_hash_functions, lsh_buckets |-> d.lsh_buckets]

NoSnapshot == [lshTables |-> FALSE, lsh_configs |-> <<>>,
               lsh_hash_functions |-> <<>>, lsh_buckets |-> <<>>]

NoOutcome == [kind |-> "none"]

Idle == [kind |-> "idle", pc |-> "idle", file |-> NoFile, files |-> <<>>,
         configId |-> 0, vectorCount |-> 0, pending |-> <<>>, stored |-> <<>>,
         rows |-> <<>>, pre |-> NoSnapshot, genResult |-> "none", noteId |-> 0, text |-> 0,
         query |-> 0, topK |-> 0, useVectorIndex |-> FALSE, outcome |-> NoOutcome]

Free(t) == task[t].pc \in {"idle", "done"}

\* ------------------------------------------------- SqlJsDatabaseAdapter
\* dropAllTables followed by the createXTable calls of rebuildDatabase:
\* the DROP names lsh_vector_buckets, so lsh_buckets keeps its rows
DropAllTables(d) ==
    [d EXCEPT !.notes = <<>>, !.vectors = <<>>, !.lshTables = FALSE,
              !.lsh_configs = <<>>, !.lsh_hash_functions = <<>>]

CreateLSHBucketsTable(d) == [d EXCEPT !.lshTables = TRUE]

ClearLSHTables(d) ==
    [d EXCEPT !.lsh_buckets = <<>>, !.lsh_hash_functions = <<>>, !.lsh_configs = <<>>]

CreateLSHConfig(d, id, vectorCount, vectorDimensions, numHashFunctions) ==
    [d EXCEPT !.lsh_configs = Append(@, [id |-> id,
                                         vector_count |-> vectorCount,
                                         vector_dimensions |-> vectorDimensions,
                                         num_hash_functions |-> numHashFunctions])]

CreateLSHHashFunction(d, configId, hashFunction) ==
    [d EXCEPT !.lsh_hash_functions =
        Append(@, [config_id |-> configId, hash_index |-> hashFunction.hashIndex,
                   projection_matrix |-> hashFunction.projectionMatrix])]

\* variant: bucket_hash unique per config, a second row replaces the first
CreateLSHBucket_UniqueHash(d, configId, bucketHash, vectorId) ==
    [d EXCEPT !.lsh_buckets =
        Append(SelectSeq(@, LAMBDA r : ~(r.config_id = configId /\ r.bucket_hash = bucketHash)),
               [config_id |-> configId, bucket_hash |-> bucketHash,
                vector_id |-> vectorId])]

CreateLSHBucket(d, configId, bucketHash, vectorId) ==
    [d EXCEPT !.lsh_buckets =
        Append(@, [config_id |-> configId, bucket_hash |-> bucketHash,
                   vector_id |-> vectorId])]

\* getLSHConfig: SELECT * FROM lsh_configs LIMIT 1 (zero or one row)
GetLSHConfig(d) ==
    IF ~d.lshTables THEN Threw("no such table: lsh_configs")
    ELSE Returned(IF d.lsh_configs = <<>> THEN <<>> ELSE <<d.lsh_configs[1]>>)

\* isVectorIndexAvailable: a failed lookup counts as no index
IsVectorIndexAvailable(d) ==
    IF GetLSHConfig(d).threw THEN FALSE ELSE GetLSHConfig(d).value # <<>>

\* stable sort of records by their integer field key
InsertByKey(acc, x) ==
    LET pos == Cardinality({j \in 1..Len(acc) : acc[j].key <= x.key})
    IN  SubSeq(acc, 1, pos) \o <<x>> \o SubSeq(acc, pos + 1, Len(acc))

RECURSIVE StableSort(_)
StableSort(s) ==
    IF s = <<>> THEN <<>>
    ELSE InsertByKey(StableSort(SubSeq(s, 1, Len(s) - 1)), s[Len(s)])

\* getLSHHashFunctions: the config's rows ORDER BY hash_index
GetLSHHashFunctions(d, configId) ==
    LET rows == SelectSeq(d.lsh_hash_functions, LAMBDA r : r.config_id = configId)
        keyed == [i \in 1..Len(rows) |-> [key |-> rows[i].hash_index, row |-> rows[i]]]
        sorted == StableSort(keyed)
    IN  [i \in 1..Len(sorted) |->
            [configId |-> sorted[i].row.config_id,
             hashIndex |-> sorted[i].row.hash_index,
             projectionMatrix |-> sorted[i].row.projection_matrix]]

\* getAllLSHBuckets: the config's rows grouped by bucket_hash, buckets in the
\* order their first row is read, rows read in table order
GetAllLSHBuckets(d, configId) ==
    LET rows == SelectSeq(d.lsh_buckets, LAMBDA r : r.config_id = configId)
        idx == [i \in 1..Len(rows) |-> i]
        firsts == SelectSeq(idx, LAMBDA i :
                      \A j \in 1..(i - 1) : rows[j].bucket_hash # rows[i].bucket_hash)
    IN  [b \in 1..Len(firsts) |->
            LET h == rows[firsts[b]].bucket_hash
                members == SelectSeq(rows, LAMBDA r : r.bucket_hash = h)
            IN  [bucketHash |-> h,
                 vectorIds |-> [m \in 1..Len(members) |-> members[m].vector_id]]]

\* variant: the buckets are left in table order
BucketDistances_Unsorted(allBuckets, queryHash) ==
    [b \in 1..Len(allBuckets) |->
        [key |-> HammingDistance(queryHash, SplitBits(allBuckets[b].bucketHash)).value,
         bucketHash |-> allBuckets[b].bucketHash,
         vectorIds |-> allBuckets[b].vectorIds]]

\* the buckets with their Hamming distance to the query, closest first
BucketDistances(allBuckets, queryHash) ==
    StableSort([b \in 1..Len(allBuckets) |->
        [key |-> HammingDistance(queryHash, SplitBits(allBuckets[b].bucketHash)).value,
         bucketHash |-> allBuckets[b].bucketHash,
         vectorIds |-> allBuckets[b].vectorIds]])

Range(s) == {s[i] : i \in 1..Len(s)}

\* the candidate loop: add a bucket, count it, stop once the target is reached
RECURSIVE CollectCandidates(_, _, _, _)
CollectCandidates(bucketDistances, i, candidateVectorIds, targetCandidates) ==
    IF i > Len(bucketDistances)
    THEN [ids |-> candidateVectorIds, bucketsUsed |-> i - 1]
    ELSE LET added == candidateVectorIds \cup Range(bucketDistances[i].vectorIds)
         IN  IF Cardinality(added) >= targetCandidates
             THEN [ids |-> added, bucketsUsed |-> i]
             ELSE CollectCandidates(bucketDistances, i + 1, added, targetCandidates)

\* the over-fetch factor of getSimilarVectors
CandidateFactor == 10

\* getSimilarVectors(queryVector, limit) on database d
GetSimilarVectors(d, queryVector, limit) ==
    LET cfg == GetLSHConfig(d)
    IN  IF cfg.threw THEN cfg
        ELSE IF cfg.value = <<>>
        THEN Threw("Vector index not available - LSH configuration missing")
        ELSE
        LET lshConfig == cfg.value[1]
            hashFunctions == GetLSHHashFunctions(d, lshConfig.id)
            queryHash == ComputeHashVector(queryVector, hashFunctions,
                                           lshConfig.vector_dimensions)
        IN  IF queryHash.threw THEN queryHash
            ELSE
            LET allBuckets == GetAllLSHBuckets(d, lshConfig.id)
            IN  IF \E b \in 1..Len(allBuckets) :
                       HammingDistance(queryHash.value,
                                       SplitBits(allBuckets[b].bucketHash)).threw
                THEN Threw("Hash vectors must have the same length")
                ELSE
                LET bucketDistances == BucketDistances(allBuckets, queryHash.value)
                    collected == CollectCandidates(bucketDistances, 1, {},
                                                   limit * CandidateFactor)
                    found == SelectSeq(d.vectors, LAMBDA v : v.id \in collected.ids)
                IN  IF bucketDistances = <<>>
                    THEN Threw("TypeError: bucketDistances[0] is undefined")
                    ELSE Returned(found)


\* ------------------------------------------------------------ generateId
\* the ids a set of LSH tables holds or refers to
IdsOfLSH(l) ==
    {l.lsh_configs[i].id : i \in 1..Len(l.lsh_configs)}
    \cup {l.lsh_hash_functions[i].config_id : i \in 1..Len(l.lsh_hash_functions)}
    \cup {l.lsh_buckets[i].config_id : i \in 1..Len(l.lsh_buckets)}
    \cup {l.lsh_buckets[i].vector_id : i \in 1..Len(l.lsh_buckets)}

\* every id a row or a running handler holds or refers to
UsedIds ==
    {notes[i].id : i \in 1..Len(notes)}
    \cup {vectors[i].id : i \in 1..Len(vectors)}
    \cup {vectors[i].note_id : i \in 1..Len(vectors)}
    \cup IdsOfLSH(LSHOf(DB))
    \cup UNION {{task[t].noteId, task[t].configId}
                \cup {task[t].rows[i].id : i \in 1..Len(task[t].rows)}
                \cup IdsOfLSH(task[t].pre)
                \cup (IF task[t].outcome.kind = "searched"
                      THEN IdsOfLSH(task[t].outcome.seen) ELSE {}) : t \in Tasks}

\* generateId(): an id no row or handler holds (ids are only ever compared
\* for equality, so the least such id stands for the fresh one)
GenerateId ==
    CHOOSE id \in 1..(Cardinality(UsedIds) + 1) :
        /\ id \notin UsedIds
        /\ \A other \in 1..(id - 1) : other \in UsedIds

\* ------------------------------------------------- generateVectorIndex
\* what one run of a handler leaves behind: the database, the handler's own
\* record and the plugin's flag
R(d, tk, f) == [db |-> d, task |-> tk, flag |-> f]

\* a handler that has ended keeps what it reported, its locals are gone
Finish(tk) ==
    [Idle EXCEPT !.kind = tk.kind, !.pc = "done", !.pre = tk.pre,
                 !.genResult = tk.genResult, !.outcome = tk.outcome]

\* how a build that raised ended: an error of its own, or a rejected save
GenFailures == {"threw", "saveFailed"}

\* variant: rebuildDatabase without its finally block
AfterGenerate_NoFinally(d, tk, f, result) ==
    LET tk1 == Finish([tk EXCEPT !.genResult = result])
    IN  CASE tk.kind = "rebuildDatabase" ->
                IF result \in GenFailures
                THEN R(d, tk1, f)
                ELSE R(d, [tk1 EXCEPT !.pc = "rd_save"], f)
          [] tk.kind = "setup" -> R(d, [tk1 EXCEPT !.pc = "setup_finish"], f)
          [] OTHER -> R(d, tk1, f)

\* the caller's code after generateVectorIndex has returned or thrown:
\* rebuildVectorIndex and ensureVectorIndexExists catch and end, rebuildDatabase
\* goes on to its final save, or to its finally block when the build threw
AfterGenerate(d, tk, f, result) ==
    LET tk1 == Finish([tk EXCEPT !.genResult = result])
    IN  CASE tk.kind = "rebuildDatabase" ->
                IF result \in GenFailures
                THEN R(d, tk1, FALSE)
                ELSE R(d, [tk1 EXCEPT !.pc = "rd_save"], f)
          [] tk.kind = "setup" -> R(d, [tk1 EXCEPT !.pc = "setup_finish"], f)
          [] OTHER -> R(d, tk1, f)

\* variant: no early return for an empty vectors table
GenerateVectorIndex_NoEmptyCheck(d, tk, f) ==
    R(ClearLSHTables(CreateLSHBucketsTable(d)),
      [tk EXCEPT !.pre = LSHOf(d), !.genResult = "running",
                 !.pc = "gen_clear_save", !.vectorCount = Len(d.vectors)], f)

\* generateVectorIndex up to the save of clearLSHTables
GenerateVectorIndex(d, tk, f) ==
    LET tk0 == [tk EXCEPT !.pre = LSHOf(d), !.genResult = "running"]
        vectorCount == Len(d.vectors)
    IN  IF vectorCount = 0
        THEN AfterGenerate(d, tk0, f, "noop")
        ELSE R(ClearLSHTables(CreateLSHBucketsTable(d)),
               [tk0 EXCEPT !.pc = "gen_clear_save", !.vectorCount = vectorCount], f)

\* the bucket loop: hash the next vector row and insert its bucket row
NextBucket(d, tk, f) ==
    IF tk.rows = <<>>
    THEN AfterGenerate(d, tk, f, "returned")
    ELSE LET vectorRow == Head(tk.rows)
             hashVector == ComputeHashVector(vectorRow.vector, tk.stored, vectorSize)
         IN  IF hashVector.threw
             THEN AfterGenerate(d, tk, f, "threw")
             ELSE R(CreateLSHBucket(d, tk.configId, JoinBits(hashVector.value), vectorRow.id),
                    [tk EXCEPT !.pc = "gen_bucket_save", !.rows = Tail(tk.rows)], f)

\* after the last hash function: read the stored hash functions and the vectors
PopulateBuckets(d, tk, f) ==
    IF ~d.lshTables
    THEN AfterGenerate(d, tk, f, "threw")
    ELSE NextBucket(d, [tk EXCEPT !.stored = GetLSHHashFunctions(d, tk.configId),
                                  !.rows = d.vectors], f)

\* the hash function loop: insert the next one, or go on to the buckets
StoreNextHashFunction(d, tk, f) ==
    IF tk.pending = <<>>
    THEN PopulateBuckets(d, tk, f)
    ELSE IF ~d.lshTables
    THEN AfterGenerate(d, tk, f, "threw")
    ELSE R(CreateLSHHashFunction(d, tk.configId, Head(tk.pending)),
           [tk EXCEPT !.pc = "gen_hf_save", !.pending = Tail(tk.pending)], f)

Apply(t, r) ==
    \E x \in {r} :
        /\ SetDB(x.db)
        /\ task' = [task EXCEPT ![t] = x.task]
        /\ isOperationInProgress' = x.flag

\* createLSHConfig with the freshly generated id
StoreConfig(d, tk, f, id) ==
    IF ~d.lshTables
    THEN AfterGenerate(d, tk, f, "threw")
    ELSE R(CreateLSHConfig(d, id, tk.vectorCount, vectorSize, CeilLog2(tk.vectorCount)),
           [tk EXCEPT !.pc = "gen_config_save", !.configId = id], f)

\* clearLSHTables has saved: createLSHConfig inserts the config row
GenAfterClear(t) ==
    /\ task[t].pc = "gen_clear_save"
    /\ Apply(t, StoreConfig(DB, task[t], isOperationInProgress, GenerateId))
    /\ UNCHANGED <<vault, isSystemValid, ops, fnIn, fnOut>>

\* createLSHConfig has saved: draw the hash functions and store the first
GenAfterConfig(t) ==
    /\ task[t].pc = "gen_config_save"
    /\ \E created \in CreateHashFunctions(task[t].vectorCount, vectorSize) :
          Apply(t, StoreNextHashFunction(DB,
                       [task[t] EXCEPT !.pending = created.hashFunctions],
                       isOperationInProgress))
    /\ UNCHANGED <<vault, isSystemValid, ops, fnIn, fnOut>>

\* createLSHHashFunction has saved
GenAfterHashFunction(t) ==
    /\ task[t].pc = "gen_hf_save"
    /\ Apply(t, StoreNextHashFunction(DB, task[t], isOperationInProgress))
    /\ UNCHANGED <<vault, isSystemValid, ops, fnIn, fnOut>>

\* createLSHBucket has saved
GenAfterBucket(t) ==
    /\ task[t].pc = "gen_bucket_save"
    /\ Apply(t, NextBucket(DB, task[t], isOperationInProgress))
    /\ UNCHANGED <<vault, isSystemValid, ops, fnIn, fnOut>>

GenSavePcs == {"gen_clear_save", "gen_config_save", "gen_hf_save", "gen_bucket_save"}

\* the save a build step is waiting for is rejected (adapter.writeBinary fails)
GenSaveFails(t) ==
    /\ task[t].pc \in GenSavePcs
    /\ Apply(t, AfterGenerate(DB, task[t], isOperationInProgress, "saveFailed"))
    /\ UNCHANGED <<vault, isSystemValid, ops, fnIn, fnOut>>


\* ------------------------------------------------------- DatabaseService
\* getNoteByPath / getNote: zero or one row
GetNoteByPath(d, path) == SelectSeq(d.notes, LAMBDA n : n.path = path)
GetNote(d, noteId) == SelectSeq(d.notes, LAMBDA n : n.id = noteId)

CreateNote(d, id, path, text) ==
    [d EXCEPT !.notes = Append(@, [id |-> id, path |-> path, text |-> text])]

\* updateNote sets text and updated_at = now; a vector row records whether its
\* created_at is still at or after its note's updated_at
UpdateNote(d, noteId, text) ==
    [d EXCEPT !.notes = [i \in 1..Len(@) |->
                            IF @[i].id = noteId THEN [@[i] EXCEPT !.text = text] ELSE @[i]],
              !.vectors = [i \in 1..Len(@) |->
                            IF @[i].note_id = noteId
                            THEN [@[i] EXCEPT !.upToDate = FALSE] ELSE @[i]]]

DeleteNote(d, noteId) ==
    [d EXCEPT !.notes = SelectSeq(@, LAMBDA n : n.id # noteId)]

DeleteVectorsForNote(d, noteId) ==
    [d EXCEPT !.vectors = SelectSeq(@, LAMBDA v : v.note_id # noteId)]

CreateVector(d, id, noteId, type, vector) ==
    [d EXCEPT !.vectors = Append(@, [id |-> id, note_id |-> noteId, type |-> type,
                                     vector |-> vector, upToDate |-> TRUE])]

\* isNoteVectorUpToDate (no chunk rows are ever written)
IsNoteVectorUpToDate(d, noteId) ==
    LET noteVectors == SelectSeq(d.vectors,
                                 LAMBDA v : v.note_id = noteId /\ v.type = "note")
    IN  /\ GetNote(d, noteId) # <<>>
        /\ noteVectors # <<>>
        /\ \A i \in 1..Len(noteVectors) : noteVectors[i].upToDate

\* ---------------------------------------------------------------- Tezcat
\* ensureVectorIndexExists: build only when no config row is found; a failed
\* lookup is logged and nothing is built
EnsureVectorIndexExists(d, tk, f, valid) ==
    IF ~valid THEN R(d, [Finish(tk) EXCEPT !.pc = "setup_finish"], f)
    ELSE IF GetLSHConfig(d).threw THEN R(d, [Finish(tk) EXCEPT !.pc = "setup_finish"], f)
    ELSE IF GetLSHConfig(d).value # <<>>
    THEN R(d, [Finish(tk) EXCEPT !.pc = "setup_finish"], f)
    ELSE GenerateVectorIndex(d, tk, f)

\* the caller's code after processAllVaultFilesIntoDatabase
AfterProcessAll(d, tk, f, valid) ==
    CASE tk.kind = "rebuildDatabase" -> GenerateVectorIndex(d, tk, f)
      [] tk.kind = "setup" -> EnsureVectorIndexExists(d, tk, f, valid)
      [] OTHER -> R(d, Finish(tk), f)

\* processOneFileIntoDatabase has returned: the file loop of
\* processAllVaultFilesIntoDatabase takes the next file, a file event handler ends
EndProcessOne(d, tk, f, valid) ==
    IF tk.kind = "modify" THEN R(d, Finish(tk), f)
    ELSE IF tk.files # <<>>
    THEN R(d, [tk EXCEPT !.pc = "pf_read", !.file = Head(tk.files),
                         !.files = Tail(tk.files)], f)
    ELSE AfterProcessAll(d, tk, f, valid)

\* processAllVaultFilesIntoDatabase: getMarkdownFiles, then the first vault.read
ProcessAllVaultFiles(d, tk, f, valid) ==
    LET files == SelectSeq([p \in 1..MaxNotes |-> p], LAMBDA p : vault[p] # NoFile)
    IN  EndProcessOne(d, [tk EXCEPT !.files = files], f, valid)

\* vault.read has returned: upsertNote
ProcessFileRead(t) ==
    /\ task[t].pc = "pf_read"
    /\ LET content == vault[task[t].file]
           existing == GetNoteByPath(DB, task[t].file)
       IN  IF content = NoFile
           THEN Apply(t, EndProcessOne(DB, task[t], isOperationInProgress, isSystemValid))
           ELSE IF existing = <<>>
           THEN Apply(t, R(CreateNote(DB, GenerateId, task[t].file, content),
                           [task[t] EXCEPT !.pc = "pf_upsert_save", !.noteId = GenerateId],
                           isOperationInProgress))
           ELSE IF existing[1].text # content
           THEN Apply(t, R(UpdateNote(DB, existing[1].id, content),
                           [task[t] EXCEPT !.pc = "pf_upsert_save",
                                           !.noteId = existing[1].id],
                           isOperationInProgress))
           ELSE Apply(t, EndProcessOne(DB, task[t], isOperationInProgress, isSystemValid))
    /\ UNCHANGED <<vault, isSystemValid, ops, fnIn, fnOut>>

\* the note is saved: insertBlocksForNote, then deleteVectorsForNote
ProcessFileDeleteVectors(t) ==
    /\ task[t].pc = "pf_upsert_save"
    /\ Apply(t, R(DeleteVectorsForNote(DB, task[t].noteId),
                  [task[t] EXCEPT !.pc = "pf_delvec_save"], isOperationInProgress))
    /\ UNCHANGED <<vault, isSystemValid, ops, fnIn, fnOut>>

\* the old vectors are deleted: processNoteVector up to embedText
ProcessNoteVector(t) ==
    /\ task[t].pc = "pf_delvec_save"
    /\ LET note == GetNote(DB, task[t].noteId)
       IN  IF note = <<>> \/ IsNoteVectorUpToDate(DB, task[t].noteId)
           THEN Apply(t, EndProcessOne(DB, task[t], isOperationInProgress, isSystemValid))
           ELSE Apply(t, R(DB, [task[t] EXCEPT !.pc = "pf_embed", !.text = note[1].text],
                           isOperationInProgress))
    /\ UNCHANGED <<vault, isSystemValid, ops, fnIn, fnOut>>

\* embedText has returned the vector, or the provider has failed
ProcessNoteEmbedded(t) ==
    /\ task[t].pc = "pf_embed"
    /\ \E ok \in BOOLEAN :
          IF ok
          THEN Apply(t, R(CreateVector(DB, GenerateId, task[t].noteId, "note",
                                       Embedding(task[t].text)),
                          [task[t] EXCEPT !.pc = "pf_vec_save"], isOperationInProgress))
          ELSE Apply(t, EndProcessOne(DB, task[t], isOperationInProgress, isSystemValid))
    /\ UNCHANGED <<vault, isSystemValid, ops, fnIn, fnOut>>

\* the vector is saved: the rest of processOneFileIntoDatabase
ProcessFileDone(t) ==
    /\ task[t].pc = "pf_vec_save"
    /\ Apply(t, EndProcessOne(DB, task[t], isOperationInProgress, isSystemValid))
    /\ UNCHANGED <<vault, isSystemValid, ops, fnIn, fnOut>>

Begin(kind) == [Idle EXCEPT !.kind = kind]

\* the user creates or edits a markdown file: handleFileCreate / handleFileModify
HandleFileModify(t) ==
    /\ Free(t) /\ ops < MaxOps
    /\ \E p \in Paths, c \in Contents :
          /\ vault[p] # c
          /\ vault' = [vault EXCEPT ![p] = c]
          /\ task' = [task EXCEPT ![t] = [Begin("modify") EXCEPT !.pc = "pf_read",
                                                                  !.file = p]]
    /\ ops' = ops + 1
    /\ UNCHANGED <<notes, vectors, lshTables, lsh_configs, lsh_hash_functions,
                   lsh_buckets, isOperationInProgress, isSystemValid, fnIn, fnOut>>

\* the user deletes a markdown file: handleFileDelete up to the first save
HandleFileDelete(t) ==
    /\ Free(t) /\ ops < MaxOps
    /\ \E p \in Paths :
          /\ vault[p] # NoFile
          /\ vault' = [vault EXCEPT ![p] = NoFile]
          /\ LET existingNote == GetNoteByPath(DB, p)
             IN  IF existingNote = <<>>
                 THEN Apply(t, R(DB, Finish(Begin("delete")),
                                 isOperationInProgress))
                 ELSE Apply(t, R(DeleteVectorsForNote(DB, existingNote[1].id),
                                 [Begin("delete") EXCEPT !.pc = "del_vec_save",
                                                            !.noteId = existingNote[1].id],
                                 isOperationInProgress))
    /\ ops' = ops + 1
    /\ UNCHANGED <<isSystemValid, fnIn, fnOut>>

\* the vectors are deleted and saved: deleteChunksForNote, deleteNote
HandleFileDeleteNote(t) ==
    /\ task[t].pc = "del_vec_save"
    /\ Apply(t, R(DeleteNote(DB, task[t].noteId), Finish(task[t]),
                  isOperationInProgress))
    /\ UNCHANGED <<vault, isSystemValid, ops, fnIn, fnOut>>

\* rebuildDatabase up to its first await on I/O
RebuildDatabase(t) ==
    /\ Free(t) /\ ops < MaxOps
    /\ ~isOperationInProgress
    /\ Apply(t, ProcessAllVaultFiles(DropAllTables(DB), Begin("rebuildDatabase"),
                                     TRUE, isSystemValid))
    /\ ops' = ops + 1
    /\ UNCHANGED <<vault, isSystemValid, fnIn, fnOut>>

\* the final save of rebuildDatabase has returned, then its finally block
RebuildDatabaseFinish(t) ==
    /\ task[t].pc = "rd_save"
    /\ task' = [task EXCEPT ![t].pc = "done"]
    /\ isSystemValid' = TRUE
    /\ isOperationInProgress' = FALSE
    /\ UNCHANGED <<vault, notes, vectors, lshTables, lsh_configs, lsh_hash_functions,
                   lsh_buckets, ops, fnIn, fnOut>>

\* the command "Rebuild Vector Index"
RebuildVectorIndex(t) ==
    /\ Free(t) /\ ops < MaxOps
    /\ isSystemValid
    /\ Apply(t, GenerateVectorIndex(DB, Begin("rebuildVectorIndex"),
                                    isOperationInProgress))
    /\ ops' = ops + 1
    /\ UNCHANGED <<vault, isSystemValid, fnIn, fnOut>>

\* performValidationAndSetup up to validateSystem
PerformValidationAndSetup(t) ==
    /\ Free(t) /\ ops < MaxOps
    /\ ~isOperationInProgress
    /\ isOperationInProgress' = TRUE
    /\ task' = [task EXCEPT ![t] = [Begin("setup") EXCEPT !.pc = "setup_validate"]]
    /\ ops' = ops + 1
    /\ UNCHANGED <<vault, notes, vectors, lshTables, lsh_configs, lsh_hash_functions,
                   lsh_buckets, isSystemValid, fnIn, fnOut>>

\* validateSystem has returned: performAutomaticSetup when the system is valid
SetupValidated(t) ==
    /\ task[t].pc = "setup_validate"
    /\ \E success \in BOOLEAN :
          /\ isSystemValid' = success
          /\ IF success
             THEN Apply(t, ProcessAllVaultFiles(DB, task[t], isOperationInProgress, TRUE))
             ELSE Apply(t, R(DB, Finish(task[t]), FALSE))
    /\ UNCHANGED <<vault, ops, fnIn, fnOut>>

\* the rest of performAutomaticSetup has run, then the finally block
SetupFinish(t) ==
    /\ task[t].pc = "setup_finish"
    /\ task' = [task EXCEPT ![t].pc = "done"]
    /\ isOperationInProgress' = FALSE
    /\ UNCHANGED <<vault, notes, vectors, lshTables, lsh_configs, lsh_hash_functions,
                   lsh_buckets, isSystemValid, ops, fnIn, fnOut>>


\* the settings tab's "Save and reindex": saveAndReindex up to the await of
\* validateCurrentProvider
SaveAndReindex(t) ==
    /\ Free(t) /\ ops < MaxOps
    /\ ~isOperationInProgress
    /\ isOperationInProgress' = TRUE
    /\ task' = [task EXCEPT ![t] = [Begin("saveAndReindex") EXCEPT !.pc = "sr_validate"]]
    /\ ops' = ops + 1
    /\ UNCHANGED <<vault, notes, vectors, lshTables, lsh_configs, lsh_hash_functions,
                   lsh_buckets, isSystemValid, fnIn, fnOut>>

\* validateCurrentProvider has returned or thrown. When it returned,
\* rebuildDatabase is called: it returns at once when isOperationInProgress
\* is set, and saveAndReindex reports the reindexing as completed; otherwise
\* the handler goes on as a rebuildDatabase. The catch block reports a
\* failed validation, the finally block clears the flag.
SaveAndReindexValidated(t) ==
    /\ task[t].pc = "sr_validate"
    /\ \E success \in BOOLEAN :
          IF ~success
          THEN /\ Apply(t, R(DB, Finish([task[t] EXCEPT
                                            !.outcome = [kind |-> "reindexFailed"]]), FALSE))
               /\ UNCHANGED isSystemValid
          ELSE IF isOperationInProgress
          THEN /\ Apply(t, R(DB, Finish([task[t] EXCEPT
                                            !.outcome = [kind |-> "reindexCompleted"]]), FALSE))
               /\ isSystemValid' = TRUE
          ELSE /\ Apply(t, ProcessAllVaultFiles(DropAllTables(DB),
                                                [task[t] EXCEPT !.kind = "rebuildDatabase"],
                                                TRUE, isSystemValid))
               /\ UNCHANGED isSystemValid
    /\ UNCHANGED <<vault, ops, fnIn, fnOut>>


\* --------------------------------------------------------- SearchService
\* calculateCosineSimilarity keeps the three sums; the score is
\* (dot / (sqrt(normA) * sqrt(normB)) + 1) / 2, and 0 when a norm is 0
CalculateCosineSimilarity(vecA, vecB) ==
    IF Len(vecA) # Len(vecB) THEN Threw("Vector dimension mismatch")
    ELSE Returned([dot |-> SumTo(vecA, vecB, Len(vecA)),
                   normA |-> SumTo(vecA, vecA, Len(vecA)),
                   normB |-> SumTo(vecB, vecB, Len(vecB))])

\* score s1 >= score s2, compared exactly
ScoreGeq(s1, s2) ==
    LET zero1 == s1.normA * s1.normB = 0
        zero2 == s2.normA * s2.normB = 0
        d1 == IF zero1 THEN -1 ELSE s1.dot
        d2 == IF zero2 THEN -1 ELSE s2.dot
        m1 == IF zero1 THEN 1 ELSE s1.normA * s1.normB
        m2 == IF zero2 THEN 1 ELSE s2.normA * s2.normB
    IN  IF d1 >= 0 /\ d2 < 0 THEN TRUE
        ELSE IF d1 < 0 /\ d2 >= 0 THEN FALSE
        ELSE IF d1 >= 0 THEN d1 * d1 * m2 >= d2 * d2 * m1
        ELSE d1 * d1 * m2 <= d2 * d2 * m1

\* results.sort((a, b) => b.score - a.score): stable, highest score first
RECURSIVE SortByScore(_)
SortByScore(s) ==
    IF s = <<>> THEN <<>>
    ELSE LET acc == SortByScore(SubSeq(s, 1, Len(s) - 1))
             x == s[Len(s)]
             pos == Cardinality({j \in 1..Len(acc) : ScoreGeq(acc[j].score, x.score)})
         IN  SubSeq(acc, 1, pos) \o <<x>> \o SubSeq(acc, pos + 1, Len(acc))

Reverse(s) == [i \in 1..Len(s) |-> s[Len(s) + 1 - i]]

\* getAllVectors: ORDER BY created_at DESC
GetAllVectors(d) == Reverse(d.vectors)

\* variant: the catch block gives up with no candidates
FallbackVectors_None(d) == <<>>

\* the linear-scan candidates vectorSearch falls back to
FallbackVectors(d) == GetAllVectors(d)

\* the vectors vectorSearch scores: the index candidates when the index is
\* requested, available and answers, all vectors otherwise
SearchCandidates(d, queryVector, topK, useVectorIndex) ==
    IF useVectorIndex /\ IsVectorIndexAvailable(d)
    THEN IF GetSimilarVectors(d, queryVector, topK).threw
         THEN FallbackVectors(d)
         ELSE GetSimilarVectors(d, queryVector, topK).value
    ELSE GetAllVectors(d)

\* vectorSearch after the query is embedded, with the default options
VectorSearch(d, queryVector, topK, useVectorIndex) ==
    LET allVectors == SearchCandidates(d, queryVector, topK, useVectorIndex)
        kept == SelectSeq(allVectors, LAMBDA v :
                    /\ v.type \in {"note", "block"}
                    /\ GetNote(d, v.note_id) # <<>>)
    IN  IF \E i \in 1..Len(allVectors) :
               CalculateCosineSimilarity(queryVector, allVectors[i].vector).threw
        THEN Threw("Vector dimension mismatch")
        ELSE LET results == [i \in 1..Len(kept) |->
                                [noteId |-> kept[i].note_id, type |-> kept[i].type,
                                 score |-> CalculateCosineSimilarity(queryVector,
                                                                     kept[i].vector).value,
                                 notePath |-> GetNote(d, kept[i].note_id)[1].path]]
                 sorted == SortByScore(results)
             IN  Returned(SubSeq(sorted, 1, IF topK < Len(sorted) THEN topK ELSE Len(sorted)))

TopKs == {1, 2}

\* a search is requested: vectorSearch up to embedText
VectorSearchStart(t) ==
    /\ Free(t) /\ ops < MaxOps
    /\ \E q \in Contents, k \in TopKs, u \in BOOLEAN :
          task' = [task EXCEPT ![t] = [Begin("search") EXCEPT !.pc = "vs_embed",
                       !.query = q, !.topK = k, !.useVectorIndex = u]]
    /\ ops' = ops + 1
    /\ UNCHANGED <<vault, notes, vectors, lshTables, lsh_configs, lsh_hash_functions,
                   lsh_buckets, isOperationInProgress, isSystemValid, fnIn, fnOut>>

\* the index cannot answer: no config table, no config row, or getSimilarVectors throws
IndexUnusable(d, queryVector, topK) ==
    \/ GetLSHConfig(d).threw
    \/ GetLSHConfig(d).value = <<>>
    \/ GetSimilarVectors(d, queryVector, topK).threw

\* the query is embedded (or the provider failed): the rest of vectorSearch.
\* The outcome keeps, next to the result, what the call saw: the LSH tables
\* (seen), whether a build was running (during), whether the index could
\* answer (unusable) and what the call returns without the index (linear)
VectorSearchRun(t) ==
    /\ task[t].pc = "vs_embed"
    /\ \E ok \in BOOLEAN :
          LET tk == task[t]
              found == VectorSearch(DB, Embedding(tk.query), tk.topK, tk.useVectorIndex)
              outcome == IF ~ok THEN [kind |-> "providerFailed"]
                         ELSE [kind |-> "searched", query |-> tk.query, topK |-> tk.topK,
                               useVectorIndex |-> tk.useVectorIndex,
                               result |-> found, seen |-> LSHOf(DB),
                               during |-> \E u \in Tasks \ {t} :
                                              task[u].genResult = "running",
                               unusable |-> IndexUnusable(DB, Embedding(tk.query), tk.topK),
                               linear |-> VectorSearch(DB, Embedding(tk.query),
                                                       tk.topK, FALSE)]
          IN  task' = [task EXCEPT ![t] = Finish([tk EXCEPT !.outcome = outcome])]
    /\ UNCHANGED <<vault, notes, vectors, lshTables, lsh_configs, lsh_hash_functions,
                   lsh_buckets, isOperationInProgress, isSystemValid, ops,
                   fnIn, fnOut>>

\* ---------------------------------------------------------- specification
NoArg == [fn |-> "none"]

\* a fresh install: initialize() has created the empty tables; the vault
\* holds whatever markdown files the user already has
Init ==
    /\ vault \in [Paths -> {NoFile} \cup Contents]
    /\ notes = <<>>
    /\ vectors = <<>>
    /\ lshTables = TRUE
    /\ lsh_configs = <<>>
    /\ lsh_hash_functions = <<>>
    /\ lsh_buckets = <<>>
    /\ isOperationInProgress = FALSE
    /\ isSystemValid = FALSE
    /\ task = [t \in Tasks |-> Idle]
    /\ ops = 0
    /\ fnIn = NoArg
    /\ fnOut = NoArg

TaskNext(t) ==
    \/ PerformValidationAndSetup(t)
    \/ SetupValidated(t)
    \/ SetupFinish(t)
    \/ SaveAndReindex(t)
    \/ SaveAndReindexValidated(t)
    \/ RebuildDatabase(t)
    \/ RebuildDatabaseFinish(t)
    \/ RebuildVectorIndex(t)
    \/ HandleFileModify(t)
    \/ HandleFileDelete(t)
    \/ HandleFileDeleteNote(t)
    \/ ProcessFileRead(t)
    \/ ProcessFileDeleteVectors(t)
    \/ ProcessNoteVector(t)
    \/ ProcessNoteEmbedded(t)
    \/ ProcessFileDone(t)
    \/ GenAfterClear(t)
    \/ GenAfterConfig(t)
    \/ GenAfterHashFunction(t)
    \/ GenAfterBucket(t)
    \/ GenSaveFails(t)
    \/ VectorSearchStart(t)
    \/ VectorSearchRun(t)

Next == \E t \in Tasks : TaskNext(t)

Spec == Init /\ [][Next]_vars

\* one handler at a time: no operation is requested while another runs
NextSeq == TaskNext(1)

SpecSeq == Init /\ [][NextSeq]_vars

\* --------------------------------------------------------------- C1..C7, C9
\* the rows of the three LSH tables
LSHRows(l) == <<l.lsh_configs, l.lsh_hash_functions, l.lsh_buckets>>

\* rows r of table s with r.config_id = id
RowsOf(s, id) == SelectSeq(s, LAMBDA r : r.config_id = id)

\* the tables hold one config and exactly its index: all its hash functions
\* and one bucket row per vector counted at build time
CompleteIndex(l) ==
    /\ Len(l.lsh_configs) = 1
    /\ LET c == l.lsh_configs[1]
       IN  /\ Len(RowsOf(l.lsh_hash_functions, c.id)) = c.num_hash_functions
           /\ Len(RowsOf(l.lsh_buckets, c.id)) = c.vector_count
           /\ Len(l.lsh_hash_functions) = c.num_hash_functions
           /\ Len(l.lsh_buckets) = c.vector_count

\* C1: generateVectorIndex is never partially committed: when it fails after
\* it has started, the LSH config, hash function and bucket rows are exactly
\* those stored before the call; when it succeeds they are fully replaced.
C1_NeverPartiallyCommitted ==
    \A t \in Tasks :
        /\ task[t].genResult \in GenFailures =>
               LSHRows(LSHOf(DB)) = LSHRows(task[t].pre)
        /\ task[t].genResult = "returned" =>
               /\ CompleteIndex(LSHOf(DB))
               /\ lsh_configs[1].id \notin IdsOfLSH(task[t].pre)

\* C2: a search that interleaves with a running generateVectorIndex never
\* observes a partial index: the tables it reads hold no config at all or a
\* complete index, never a config whose hash functions or buckets are partly
\* written.
C2_SearchNeverSeesPartialIndex ==
    \A t \in Tasks :
        LET o == task[t].outcome
        IN  (o.kind = "searched" /\ o.useVectorIndex /\ o.during) =>
                (o.seen.lsh_configs = <<>> \/ CompleteIndex(o.seen))

\* a handler that rebuilds or ingests and has not ended
Mutating(t) ==
    /\ ~Free(t)
    /\ \/ task[t].kind \in {"rebuildDatabase", "rebuildVectorIndex", "modify"}
       \/ task[t].kind = "setup" /\ task[t].pc # "setup_validate"

\* C3: rebuild and ingest operations never overlap: while one of them is in
\* progress any other is rejected by isOperationInProgress, so at most one
\* of them is running at any time.
C3_RebuildAndIngestNeverOverlap ==
    Cardinality({t \in Tasks : Mutating(t)}) <= 1

\* C4: after generateVectorIndex has returned without error over a non-empty
\* population, nothing else interleaved, the bucket rows partition the
\* population: every vector has exactly one bucket row, under the new
\* config, and its bucket_hash is the joined bits computeHashVector gives
\* for the vector under the stored hash functions.
C4_BucketsPartitionPopulation ==
    \A t \in Tasks :
        task[t].genResult = "returned" =>
            /\ lsh_configs # <<>>
            /\ LET c == lsh_configs[Len(lsh_configs)]
                   stored == GetLSHHashFunctions(DB, c.id)
               IN  /\ \A i \in 1..Len(lsh_buckets) : lsh_buckets[i].config_id = c.id
                   /\ \A v \in Range(vectors) :
                         /\ Cardinality({i \in 1..Len(lsh_buckets) :
                                            lsh_buckets[i].vector_id = v.id}) = 1
                         /\ \A i \in 1..Len(lsh_buckets) :
                               lsh_buckets[i].vector_id = v.id =>
                                 LET bits == ComputeHashVector(v.vector, stored,
                                                               c.vector_dimensions)
                                 IN  /\ ~bits.threw
                                     /\ lsh_buckets[i].bucket_hash = JoinBits(bits.value)
                   /\ \A i \in 1..Len(lsh_buckets) :
                         \E v \in Range(vectors) : lsh_buckets[i].vector_id = v.id

\* a build over two vectors has returned and put them in two buckets
C4_Witness ==
    \E t \in Tasks :
        /\ task[t].genResult = "returned"
        /\ Len(vectors) = 2
        /\ Len(lsh_buckets) = 2
        /\ lsh_buckets[1].bucket_hash # lsh_buckets[2].bucket_hash

\* C5: when no handler is running, at most one lsh_configs row exists and
\* every stored hash function and bucket row belongs to it.
C5_SingleConfigOwnsAllRows ==
    (\A t \in Tasks : Free(t)) =>
        /\ Len(lsh_configs) <= 1
        /\ \A i \in 1..Len(lsh_hash_functions) :
              lsh_configs # <<>> /\ lsh_hash_functions[i].config_id = lsh_configs[1].id
        /\ \A i \in 1..Len(lsh_buckets) :
              lsh_configs # <<>> /\ lsh_buckets[i].config_id = lsh_configs[1].id

\* C6: with an empty vectors table generateVectorIndex is a no-op: it
\* returns without an error and the LSH tables are exactly as before the
\* call, rows of an earlier build included.
C6_EmptyPopulationIsNoOp ==
    \A t \in Tasks :
        (task[t].genResult # "none" /\ vectors = <<>>) =>
            /\ task[t].genResult = "noop"
            /\ LSHOf(DB) = task[t].pre

\* a build found no vectors and left the bucket rows of an earlier build
C6_Witness ==
    \E t \in Tasks :
        /\ task[t].genResult = "noop"
        /\ vectors = <<>>
        /\ task[t].pre.lsh_buckets # <<>>
        /\ lsh_buckets = task[t].pre.lsh_buckets

\* C7: self-recall: once generateVectorIndex has run over a non-empty
\* population S (of any size, a single vector included), getSimilarVectors
\* with a query identical to a member v of S returns v, for every limit.
C7_SelfRecall ==
    \A t \in Tasks :
        task[t].genResult \in {"returned", "threw"} =>
            \A v \in Range(vectors), limit \in 0..MaxLimit :
                LET r == GetSimilarVectors(DB, v.vector, limit)
                IN  ~r.threw /\ v \in Range(r.value)

\* C9: getSimilarVectors throws when no LSH config exists, and vectorSearch
\* with useVectorIndex never fails because of the index: when no config
\* exists, the availability check throws or getSimilarVectors throws, it
\* returns what the same call returns with useVectorIndex = false.
C9_FallsBackToLinearScan ==
    /\ \A q \in Contents, k \in TopKs :
          (GetLSHConfig(DB).threw \/ GetLSHConfig(DB).value = <<>>) =>
              GetSimilarVectors(DB, Embedding(q), k).threw
    /\ \A t \in Tasks :
          LET o == task[t].outcome
          IN  (o.kind = "searched" /\ o.useVectorIndex /\ o.unusable) =>
                  /\ ~o.result.threw
                  /\ o.result = o.linear

\* a search asked for the index, found a config, had getSimilarVectors
\* throw, and still returned a scored vector
C9_Witness ==
    \E t \in Tasks :
        LET o == task[t].outcome
        IN  /\ o.kind = "searched"
            /\ o.useVectorIndex
            /\ o.unusable
            /\ o.seen.lsh_configs # <<>>
            /\ ~o.result.threw
            /\ o.result.value # <<>>

\* ------------------------------------------- createHashFunctions, alone
\* the machine at rest, for the specifications that apply one function
AtRest ==
    /\ vault = [p \in Paths |-> NoFile]
    /\ isOperationInProgress = FALSE
    /\ isSystemValid = FALSE
    /\ task = [t \in Tasks |-> Idle]
    /\ ops = 0

EmptyTables ==
    /\ notes = <<>>
    /\ vectors = <<>>
    /\ lshTables = TRUE
    /\ lsh_configs = <<>>
    /\ lsh_hash_functions = <<>>
    /\ lsh_buckets = <<>>

InitCHF ==
    /\ AtRest
    /\ EmptyTables
    /\ fnIn \in {[fn |-> "createHashFunctions", vectorCount |-> n, vectorDimensions |-> d] :
                  n \in 0..MaxCount, d \in 1..vectorSize}
    /\ fnOut = NoArg

\* one call of createHashFunctions(vectorCount, vectorDimensions)
ApplyCreateHashFunctions ==
    /\ fnIn.fn = "createHashFunctions"
    /\ fnOut = NoArg
    /\ \E created \in CreateHashFunctions(fnIn.vectorCount, fnIn.vectorDimensions) :
          fnOut' = [fn |-> "createHashFunctions", value |-> created]
    /\ UNCHANGED <<vault, notes, vectors, lshTables, lsh_configs, lsh_hash_functions,
                   lsh_buckets, isOperationInProgress, isSystemValid, task, ops, fnIn>>

NextCHF == ApplyCreateHashFunctions

SpecCHF == InitCHF /\ [][NextCHF]_vars

\* --------------------------------------------- getSimilarVectors, alone
\* the int8 vectors and the projections the drawn populations are made of
VecValues ==
    {[i \in 1..vectorSize |-> 1],
     [i \in 1..vectorSize |-> IF i = 1 THEN 1 ELSE -1],
     [i \in 1..vectorSize |-> IF i = 1 THEN -1 ELSE 1]}

BucketSizes == {1, MaxBucketSize \div 2, MaxBucketSize}

\* a population: groups of equal vectors, each group the block vectors of one note
Groups ==
    UNION {{g \in [1..b -> [value : VecValues, size : BucketSizes]] :
               \A i, j \in 1..b : i # j => g[i].value # g[j].value} :
           b \in 1..MaxBuckets}

RECURSIVE SizeUpTo(_, _)
SizeUpTo(groups, g) == IF g = 0 THEN 0 ELSE SizeUpTo(groups, g - 1) + groups[g].size

GroupOf(groups, i) ==
    CHOOSE g \in 1..Len(groups) : SizeUpTo(groups, g - 1) < i /\ i <= SizeUpTo(groups, g)

\* the database after the groups' notes are ingested: vector i has id i, the
\* note of group g has id n + g
Ingested(groups) ==
    LET n == SizeUpTo(groups, Len(groups))
    IN  [notes |-> [g \in 1..Len(groups) |-> [id |-> n + g, path |-> g, text |-> 1]],
         vectors |-> [i \in 1..n |->
                         [id |-> i, note_id |-> n + GroupOf(groups, i), type |-> "block",
                          vector |-> groups[GroupOf(groups, i)].value, upToDate |-> TRUE]],
         lshTables |-> TRUE, lsh_configs |-> <<>>, lsh_hash_functions |-> <<>>,
         lsh_buckets |-> <<>>]

\* one step of a build that nothing interrupts
BuildStep(r, hashFunctions, id) ==
    CASE r.task.pc = "gen_clear_save" -> StoreConfig(r.db, r.task, r.flag, id)
      [] r.task.pc = "gen_config_save" ->
            StoreNextHashFunction(r.db, [r.task EXCEPT !.pending = hashFunctions], r.flag)
      [] r.task.pc = "gen_hf_save" -> StoreNextHashFunction(r.db, r.task, r.flag)
      [] r.task.pc = "gen_bucket_save" -> NextBucket(r.db, r.task, r.flag)

RECURSIVE RunBuild(_, _, _)
RunBuild(r, hashFunctions, id) ==
    IF r.task.pc \in GenSavePcs
    THEN RunBuild(BuildStep(r, hashFunctions, id), hashFunctions, id)
    ELSE r

\* generateVectorIndex run to its end on d, the random projections being
\* p1, p2, p1, p2, ...
BuiltIndex(d, p1, p2, id) ==
    LET hashFunctions == [i \in 1..CeilLog2(Len(d.vectors)) |->
                             [hashIndex |-> i - 1,
                              projectionMatrix |-> IF i % 2 = 1 THEN p1 ELSE p2]]
    IN  RunBuild(GenerateVectorIndex(d, Begin("rebuildVectorIndex"), FALSE),
                 hashFunctions, id).db

\* handleFileDelete for the note of the first group (deleted = 1), or nothing
AfterDelete(d, deleted) ==
    IF deleted = 0 THEN d
    ELSE DeleteNote(DeleteVectorsForNote(d, d.notes[1].id), d.notes[1].id)

InitGSV ==
    /\ AtRest
    /\ \E groups \in Groups, p1 \in VecValues, deleted \in {0, 1} :
          /\ SizeUpTo(groups, Len(groups)) >= 2
          /\ LET n == SizeUpTo(groups, Len(groups))
                 p2 == [i \in 1..vectorSize |-> IF i = 1 THEN 1 ELSE -1]
                 d == AfterDelete(BuiltIndex(Ingested(groups), p1, p2, n + Len(groups) + 1),
                                  deleted)
             IN  /\ notes = d.notes
                 /\ vectors = d.vectors
                 /\ lshTables = d.lshTables
                 /\ lsh_configs = d.lsh_configs
                 /\ lsh_hash_functions = d.lsh_hash_functions
                 /\ lsh_buckets = d.lsh_buckets
    /\ fnIn \in {[fn |-> "getSimilarVectors", queryVector |-> q, limit |-> k] :
                  q \in VecValues, k \in 0..MaxLimit}
    /\ fnOut = NoArg

\* one call of getSimilarVectors(queryVector, limit)
ApplyGetSimilarVectors ==
    /\ fnIn.fn = "getSimilarVectors"
    /\ fnOut = NoArg
    /\ fnOut' = [fn |-> "getSimilarVectors",
                 value |-> GetSimilarVectors(DB, fnIn.queryVector, fnIn.limit)]
    /\ UNCHANGED <<vault, notes, vectors, lshTables, lsh_configs, lsh_hash_functions,
                   lsh_buckets, isOperationInProgress, isSystemValid, task, ops, fnIn>>

NextGSV == ApplyGetSimilarVectors

SpecGSV == InitGSV /\ [][NextGSV]_vars

\* ------------------------------------------------------------------- C8
\* what the claim expects of a call: the config's buckets ranked by Hamming
\* distance to the query signature (ties in the order the buckets are read),
\* and the ids of the first m of them
ClosestBuckets ==
    LET c == lsh_configs[1]
        signature == JoinBits(ComputeHashVector(fnIn.queryVector,
                                  GetLSHHashFunctions(DB, c.id), c.vector_dimensions).value)
        buckets == GetAllLSHBuckets(DB, c.id)
        count == Len(buckets)
        Distance(b) == Cardinality({i \in 1..Len(signature) :
                                       buckets[b].bucketHash[i] # signature[i]})
        Rank(b) == Cardinality({g \in 1..count :
                       \/ Distance(g) < Distance(b)
                       \/ Distance(g) = Distance(b) /\ g < b})
        IdsOfFirst(m) == UNION {Range(buckets[b].vectorIds) :
                                   b \in {g \in 1..count : Rank(g) < m}}
        Reached(m) == Cardinality(IdsOfFirst(m)) >= fnIn.limit * 10
        needed == IF \E m \in 1..count : Reached(m)
                  THEN CHOOSE m \in 1..count : Reached(m) /\ \A k \in 1..(m - 1) : ~Reached(k)
                  ELSE count
    IN  [buckets |-> count,
         needed |-> needed,
         reached |-> Reached(needed),
         ids |-> IdsOfFirst(needed),
         closest |-> IdsOfFirst(1),
         firstReadRank |-> Rank(1)]

\* C8: getSimilarVectors(query, limit) returns exactly the stored vectors
\* whose ids are in the union of the first m buckets by ascending Hamming
\* distance to the query signature, m the smallest count (at least 1) whose
\* union holds limit*10 distinct ids, or the number of buckets; the closest
\* bucket is always included and no vector is returned twice.
C8_CandidatesAreClosestBuckets ==
    (fnOut.fn = "getSimilarVectors" /\ ~fnOut.value.threw) =>
        LET result == fnOut.value.value
            expected == ClosestBuckets
        IN  /\ Range(result) = {v \in Range(vectors) : v.id \in expected.ids}
            /\ \A i, j \in 1..Len(result) : i # j => result[i].id # result[j].id
            /\ {v \in Range(vectors) : v.id \in expected.closest} \subseteq Range(result)

\* a call that stopped at the second of three buckets, the bucket read first
\* not being the closest
C8_Witness ==
    /\ fnOut.fn = "getSimilarVectors"
    /\ ~fnOut.value.threw
    /\ fnIn.limit > 0
    /\ LET expected == ClosestBuckets
       IN  /\ expected.buckets = 3
           /\ expected.needed = 2
           /\ expected.reached
           /\ expected.firstReadRank > 0
    /\ Len(fnOut.value.value) < Len(vectors)

\* ------------------------------------------------------------------ C10
\* ceil(log2(n)) clamped to 0 for n <= 1, written without Math.log2
ClampedCeilLog2(n) ==
    IF n <= 1 THEN 0
    ELSE CHOOSE k \in 1..n : Pow2(k) >= n /\ Pow2(k - 1) < n

\* C10: for every vectorCount >= 0, createHashFunctions(vectorCount, dims)
\* reports numHashFunctions = ceil(log2(vectorCount)) for vectorCount >= 2 and
\* 0 for vectorCount <= 1, and returns exactly that many hash functions with
\* hashIndex 0..numHashFunctions-1 in order and projections of length dims.
C10_NumHashFunctionsClamped ==
    fnOut.fn = "createHashFunctions" =>
        LET expected == ClampedCeilLog2(fnIn.vectorCount)
            r == fnOut.value
        IN  /\ r.numHashFunctions = expected
            /\ Len(r.hashFunctions) = expected
            /\ \A i \in 1..Len(r.hashFunctions) :
                  /\ r.hashFunctions[i].hashIndex = i - 1
                  /\ Len(r.hashFunctions[i].projectionMatrix) = fnIn.vectorDimensions

\* ------------------------------------------------ computeHashVector, alone
MaxHashFunctions == 2    \* longest hash function list handed to computeHashVector

\* components of the int8 vectors handed to the pure functions
Int8Values == {-1, 0, 1}

\* sequences over S of the lengths in lo..hi
SeqsOf(S, lo, hi) == UNION {[1..n -> S] : n \in lo..hi}

InitCHV ==
    /\ AtRest
    /\ EmptyTables
    /\ fnIn \in {[fn |-> "computeHashVector", vector |-> v,
                  hashFunctions |-> [i \in 1..Len(pm) |->
                                        [hashIndex |-> i - 1, projectionMatrix |-> pm[i]]],
                  expectedDimensions |-> d] :
                  v \in SeqsOf(Int8Values, 1, vectorSize),
                  pm \in SeqsOf(SeqsOf(ProjectionValues, 1, vectorSize), 0, MaxHashFunctions),
                  d \in 1..vectorSize}
    /\ fnOut = NoArg

\* one call of computeHashVector(vector, hashFunctions, expectedDimensions)
ApplyComputeHashVector ==
    /\ fnIn.fn = "computeHashVector"
    /\ fnOut = NoArg
    /\ fnOut' = [fn |-> "computeHashVector",
                 value |-> ComputeHashVector(fnIn.vector, fnIn.hashFunctions,
                                             fnIn.expectedDimensions)]
    /\ UNCHANGED <<vault, notes, vectors, lshTables, lsh_configs, lsh_hash_functions,
                   lsh_buckets, isOperationInProgress, isSystemValid, task, ops, fnIn>>

NextCHV == ApplyComputeHashVector

SpecCHV == InitCHV /\ [][NextCHV]_vars

\* ------------------------------------------------------------------ C11
\* the sum of the products of two equally long sequences, taken from the front
RECURSIVE SumOfProducts(_, _)
SumOfProducts(a, b) ==
    IF a = <<>> THEN 0 ELSE Head(a) * Head(b) + SumOfProducts(Tail(a), Tail(b))

\* C11: when computeHashVector returns, it returns one bit per hash function,
\* in the order of the hash functions; bit i is 1 exactly when the dot product
\* of the vector with projection i is strictly greater than 0 and 0 otherwise,
\* a dot product of exactly zero giving 0.
C11_BitIsSignOfDotProduct ==
    (fnOut.fn = "computeHashVector" /\ ~fnOut.value.threw) =>
        LET bits == fnOut.value.value
        IN  /\ Len(bits) = Len(fnIn.hashFunctions)
            /\ \A i \in 1..Len(bits) :
                  LET dot == SumOfProducts(fnIn.vector, fnIn.hashFunctions[i].projectionMatrix)
                  IN  /\ bits[i] \in {0, 1}
                      /\ bits[i] = 1 <=> dot > 0

\* a call that returned the bits 1, 0 and met a dot product of exactly zero
C11_Witness ==
    /\ fnOut.fn = "computeHashVector"
    /\ ~fnOut.value.threw
    /\ fnOut.value.value = <<1, 0>>
    /\ fnIn.vector = <<1, -1>>
    /\ fnIn.hashFunctions[1].projectionMatrix = <<1, -1>>
    /\ fnIn.hashFunctions[2].projectionMatrix = <<1, 1>>

\* ------------------------------------------------------------------ C12
\* C12: empty input is not an error: a build whose corpus gives no hash
\* functions (exactly one vector) returns without raising, and with the
\* machine at rest getSimilarVectors over an index that has no hash functions
\* or no buckets completes without raising, for every query and limit.
C12_EmptyInputIsNotAnError ==
    /\ \A t \in Tasks :
          (/\ task[t].genResult \in {"returned", "threw"}
           /\ lsh_configs # <<>>
           /\ lsh_configs[1].num_hash_functions = 0) => task[t].genResult = "returned"
    /\ (/\ \A t \in Tasks : Free(t)
        /\ lshTables
        /\ lsh_configs # <<>>
        /\ \/ GetLSHHashFunctions(DB, lsh_configs[1].id) = <<>>
           \/ GetAllLSHBuckets(DB, lsh_configs[1].id) = <<>>) =>
          \A q \in Contents, limit \in 0..MaxLimit :
              ~GetSimilarVectors(DB, Embedding(q), limit).threw

\* ------------------------------------------------------------------ C13
\* C13: computeHashVector raises an error, and returns no bits, exactly when
\* the vector's length differs from the expected dimensions, the hash function
\* list is empty, or a projection's length differs from the vector's length;
\* an empty list alone raises 'No hash functions provided' and a projection of
\* another length alone raises 'Vectors must have the same length'.
C13_RejectsBadArguments ==
    fnOut.fn = "computeHashVector" =>
        LET wrongDimensions == Len(fnIn.vector) # fnIn.expectedDimensions
            noHashFunctions == fnIn.hashFunctions = <<>>
            wrongProjection == \E i \in 1..Len(fnIn.hashFunctions) :
                                  Len(fnIn.hashFunctions[i].projectionMatrix) # Len(fnIn.vector)
            r == fnOut.value
        IN  /\ r.threw <=> (wrongDimensions \/ noHashFunctions \/ wrongProjection)
            /\ r.threw => "value" \notin DOMAIN r
            /\ (noHashFunctions /\ ~wrongDimensions) =>
                  (r.threw /\ r.error = "No hash functions provided")
            /\ (wrongProjection /\ ~wrongDimensions) =>
                  (r.threw /\ r.error = "Vectors must have the same length")

\* a call that was refused because the second projection is shorter than the vector
C13_Witness ==
    /\ fnOut.fn = "computeHashVector"
    /\ fnOut.value.threw
    /\ fnOut.value.error = "Vectors must have the same length"
    /\ Len(fnIn.vector) = fnIn.expectedDimensions
    /\ Len(fnIn.hashFunctions) = 2
    /\ Len(fnIn.hashFunctions[1].projectionMatrix) = Len(fnIn.vector)
    /\ Len(fnIn.hashFunctions[2].projectionMatrix) # Len(fnIn.vector)

\* --------------------------------------------------- hammingDistance, alone
MaxBits == 3    \* longest hash vector handed to hammingDistance

InitHD ==
    /\ AtRest
    /\ EmptyTables
    /\ fnIn \in {[fn |-> "hammingDistance", hash1 |-> a, hash2 |-> b] :
                  a \in SeqsOf({0, 1}, 0, MaxBits), b \in SeqsOf({0, 1}, 0, MaxBits)}
    /\ fnOut = NoArg

\* one call of VectorUtils.hammingDistance(hash1, hash2)
ApplyHammingDistance ==
    /\ fnIn.fn = "hammingDistance"
    /\ fnOut = NoArg
    /\ fnOut' = [fn |-> "hammingDistance", value |-> HammingDistance(fnIn.hash1, fnIn.hash2)]
    /\ UNCHANGED <<vault, notes, vectors, lshTables, lsh_configs, lsh_hash_functions,
                   lsh_buckets, isOperationInProgress, isSystemValid, task, ops, fnIn>>

NextHD == ApplyHammingDistance

SpecHD == InitHD /\ [][NextHD]_vars

\* ------------------------------------------------------------------ C14
\* the number of positions at which two equally long sequences differ
RECURSIVE Differing(_, _)
Differing(a, b) ==
    IF a = <<>> THEN 0
    ELSE (IF Head(a) = Head(b) THEN 0 ELSE 1) + Differing(Tail(a), Tail(b))

\* C14: for hash vectors of equal length hammingDistance(a, b) is the number
\* of positions where they differ; it equals hammingDistance(b, a), lies
\* between 0 and the length, and is 0 exactly when a = b (0 for two empty
\* vectors); for vectors of different lengths the call raises an error.
C14_HammingDistanceIsMetric ==
    fnOut.fn = "hammingDistance" =>
        LET a == fnIn.hash1
            b == fnIn.hash2
            r == fnOut.value
        IN  IF Len(a) # Len(b)
            THEN r.threw
            ELSE /\ ~r.threw
                 /\ r.value = Differing(a, b)
                 /\ r = HammingDistance(b, a)
                 /\ r.value \in 0..Len(a)
                 /\ r.value = 0 <=> a = b

\* a call on two vectors of three bits that differ in the first and the last
C14_Witness ==
    /\ fnOut.fn = "hammingDistance"
    /\ fnIn.hash1 = <<1, 0, 0>>
    /\ fnIn.hash2 = <<0, 0, 1>>
    /\ ~fnOut.value.threw
    /\ fnOut.value.value = 2

\* ------------------------------------------------- JavaScript number arithmetic
\* A JavaScript number is an IEEE 754 binary64 value: every operation gives the
\* exact result rounded to the nearest value with a 53 bit significand, ties
\* to even (the exponent range is not modelled: nothing here overflows or
\* underflows).  A significand does not fit a 32 bit integer, so natural
\* numbers are kept as sequences of limbs, least significant first, without a
\* leading zero limb; the natural number 0 is the empty sequence.
SignificandBits == 53
LimbBits == 15
Base == Pow2(LimbBits)

RECURSIVE BigOf(_)
BigOf(n) == IF n = 0 THEN <<>> ELSE <<n % Base>> \o BigOf(n \div Base)

RECURSIVE Trim(_)
Trim(a) ==
    IF a = <<>> THEN <<>>
    ELSE IF a[Len(a)] = 0 THEN Trim(SubSeq(a, 1, Len(a) - 1)) ELSE a

LimbAt(a, i) == IF i <= Len(a) THEN a[i] ELSE 0

RECURSIVE AddFrom(_, _, _, _)
AddFrom(a, b, i, carry) ==
    IF i > Len(a) /\ i > Len(b)
    THEN (IF carry = 0 THEN <<>> ELSE <<carry>>)
    ELSE LET x == LimbAt(a, i) + LimbAt(b, i) + carry
         IN  <<x % Base>> \o AddFrom(a, b, i + 1, x \div Base)

BigAdd(a, b) == AddFrom(a, b, 1, 0)

\* a - b for a >= b
RECURSIVE SubFrom(_, _, _, _)
SubFrom(a, b, i, borrow) ==
    IF i > Len(a) THEN <<>>
    ELSE LET x == LimbAt(a, i) - LimbAt(b, i) - borrow
         IN  <<x % Base>> \o SubFrom(a, b, i + 1, IF x < 0 THEN 1 ELSE 0)

BigSub(a, b) == Trim(SubFrom(a, b, 1, 0))

RECURSIVE MulLimbFrom(_, _, _, _)
MulLimbFrom(a, k, i, carry) ==
    IF i > Len(a)
    THEN (IF carry = 0 THEN <<>> ELSE <<carry>>)
    ELSE LET x == a[i] * k + carry
         IN  <<x % Base>> \o MulLimbFrom(a, k, i + 1, x \div Base)

ShiftLimb(a) == IF a = <<>> THEN <<>> ELSE <<0>> \o a

RECURSIVE BigMul(_, _)
BigMul(a, b) ==
    IF a = <<>> \/ b = <<>> THEN <<>>
    ELSE BigAdd(Trim(MulLimbFrom(a, Head(b), 1, 0)), ShiftLimb(BigMul(a, Tail(b))))

\* a < b
RECURSIVE LessFrom(_, _, _)
LessFrom(a, b, i) ==
    IF i = 0 THEN FALSE
    ELSE IF a[i] # b[i] THEN a[i] < b[i]
    ELSE LessFrom(a, b, i - 1)

BigLess(a, b) ==
    IF Len(a) # Len(b) THEN Len(a) < Len(b) ELSE LessFrom(a, b, Len(a))

BigLeq(a, b) == ~BigLess(b, a)

BigPow2(k) ==
    [i \in 1..(k \div LimbBits + 1) |->
        IF i = k \div LimbBits + 1 THEN Pow2(k % LimbBits) ELSE 0]

\* a * 2^k
BigShl(a, k) ==
    IF a = <<>> THEN <<>>
    ELSE [i \in 1..(k \div LimbBits) |-> 0] \o MulLimbFrom(a, Pow2(k % LimbBits), 1, 0)

\* floor(a / 2^k)
BigShr(a, k) ==
    LET rest == SubSeq(a, k \div LimbBits + 1, Len(a))
        bits == k % LimbBits
    IN  Trim([i \in 1..Len(rest) |->
                 rest[i] \div Pow2(bits)
                 + (LimbAt(rest, i + 1) % Pow2(bits)) * Pow2(LimbBits - bits)])

BitLen(a) ==
    IF a = <<>> THEN 0
    ELSE LimbBits * (Len(a) - 1)
         + (CHOOSE k \in 1..LimbBits : Pow2(k - 1) <= a[Len(a)] /\ a[Len(a)] < Pow2(k))

BigOdd(a) == a # <<>> /\ a[1] % 2 = 1

\* floor(n / d) for a quotient below 2^(bit + 1), q holding the bits above bit
RECURSIVE Quotient(_, _, _, _)
Quotient(n, d, q, bit) ==
    IF bit < 0 THEN q
    ELSE IF BigLeq(BigMul(BigAdd(q, BigPow2(bit)), d), n)
    THEN Quotient(n, d, BigAdd(q, BigPow2(bit)), bit - 1)
    ELSE Quotient(n, d, q, bit - 1)

\* floor(a / k) for a divisor k of one limb: the limbs 1..i of the quotient,
\* rem being the remainder the limbs above i leave
RECURSIVE DivLimbFrom(_, _, _, _)
DivLimbFrom(a, k, i, rem) ==
    IF i = 0 THEN <<>>
    ELSE DivLimbFrom(a, k, i - 1, (rem * Base + a[i]) % k)
         \o <<(rem * Base + a[i]) \div k>>

\* floor(n / d)
BigDiv(n, d) ==
    IF BigLess(n, d) THEN <<>>
    ELSE IF Len(d) = 1 THEN Trim(DivLimbFrom(n, d[1], Len(n), 0))
    ELSE Quotient(n, d, <<>>, BitLen(n) - BitLen(d))

\* floor(sqrt(x)) for a root below 2^(bit + 1), r holding the bits above bit
RECURSIVE Root(_, _, _)
Root(x, r, bit) ==
    IF bit < 0 THEN r
    ELSE IF BigLeq(BigMul(BigAdd(r, BigPow2(bit)), BigAdd(r, BigPow2(bit))), x)
    THEN Root(x, BigAdd(r, BigPow2(bit)), bit - 1)
    ELSE Root(x, r, bit - 1)

\* floor(sqrt(x))
BigSqrt(x) == Root(x, <<>>, BitLen(x) \div 2)

\* a number: sign * m * 2^e with m of exactly SignificandBits bits, or zero
Zero == [sign |-> 1, m |-> <<>>, e |-> 0]

\* sign * m * 2^e for a significand of SignificandBits or one more bit
Normal(sign, m, e) ==
    IF BitLen(m) > SignificandBits
    THEN [sign |-> sign, m |-> BigPow2(SignificandBits - 1), e |-> e + 1]
    ELSE [sign |-> sign, m |-> m, e |-> e]

\* sign * (n / d) * 2^e rounded to the nearest number, ties to even; n and d
\* are scaled so that the quotient q has exactly SignificandBits bits
RoundQuotient(sign, n, d, e) ==
    IF n = <<>> THEN Zero
    ELSE
    LET s == BitLen(n) - BitLen(d) - SignificandBits
        n1 == IF s < 0 THEN BigShl(n, -s) ELSE n
        d1 == IF s > 0 THEN BigShl(d, s) ELSE d
        wide == BigLeq(BigShl(d1, SignificandBits), n1)
        d2 == IF wide THEN BigShl(d1, 1) ELSE d1
        q == IF d = <<1>> THEN BigShr(n1, BitLen(d2) - 1) ELSE BigDiv(n1, d2)
        twice == BigShl(n1, 1)
        middle == BigMul(BigAdd(BigShl(q, 1), <<1>>), d2)
        up == BigLess(middle, twice) \/ (middle = twice /\ BigOdd(q))
    IN  Normal(sign, IF up THEN BigAdd(q, <<1>>) ELSE q, e + s + (IF wide THEN 1 ELSE 0))

Abs(n) == IF n < 0 THEN -n ELSE n
Sign(n) == IF n < 0 THEN -1 ELSE 1

\* the number an integer converts to
NumberOf(n) == RoundQuotient(Sign(n), BigOf(Abs(n)), <<1>>, 0)

\* x * y
Times(x, y) == RoundQuotient(x.sign * y.sign, BigMul(x.m, y.m), <<1>>, x.e + y.e)

\* the number of zero bits a natural number a # 0 ends with
RECURSIVE TrailingZeros(_)
TrailingZeros(a) ==
    IF a[1] = 0 THEN LimbBits + TrailingZeros(Tail(a))
    ELSE CHOOSE k \in 0..LimbBits : a[1] % Pow2(k) = 0 /\ a[1] % Pow2(k + 1) # 0

\* x / y for y # 0; the zero bits y.m ends with go to the exponent
DividedBy(x, y) ==
    LET t == TrailingZeros(y.m)
    IN  RoundQuotient(x.sign * y.sign, x.m, BigShr(y.m, t), x.e - y.e - t)

\* x + y
Plus(x, y) ==
    IF x.m = <<>> THEN y
    ELSE IF y.m = <<>> THEN x
    ELSE
    LET e == IF x.e < y.e THEN x.e ELSE y.e
        a == BigShl(x.m, x.e - e)
        b == BigShl(y.m, y.e - e)
    IN  IF x.sign = y.sign THEN RoundQuotient(x.sign, BigAdd(a, b), <<1>>, e)
        ELSE IF BigLess(a, b) THEN RoundQuotient(y.sign, BigSub(b, a), <<1>>, e)
        ELSE RoundQuotient(x.sign, BigSub(a, b), <<1>>, e)

\* Math.sqrt(x) for x >= 0
Sqrt(x) ==
    IF x.m = <<>> THEN Zero
    ELSE
    LET t == (SignificandBits - x.e) \div 2
        big == BigShl(x.m, x.e + 2 * t)
        r == BigSqrt(big)
        up == BigLess(BigAdd(BigMul(r, r), r), big)
    IN  Normal(1, IF up THEN BigAdd(r, <<1>>) ELSE r, -t)

\* |x| < |y| for x, y # 0: the significands have the same length
SmallerThan(x, y) == x.e < y.e \/ (x.e = y.e /\ BigLess(x.m, y.m))

\* x < y
Less(x, y) ==
    IF x.m = <<>> THEN y.m # <<>> /\ y.sign = 1
    ELSE IF y.m = <<>> THEN x.sign = -1
    ELSE IF x.sign # y.sign THEN x.sign = -1
    ELSE IF x.sign = 1 THEN SmallerThan(x, y)
    ELSE SmallerThan(y, x)

One == NumberOf(1)
Half == DividedBy(NumberOf(1), NumberOf(2))

\* the number calculateCosineSimilarity returns: the sums of the loop, then
\* magnitude, cosineSim and (cosineSim + 1) / 2 in JavaScript numbers
CosineSimilarityScore(vecA, vecB) ==
    LET sums == CalculateCosineSimilarity(vecA, vecB)
    IN  IF sums.threw THEN sums
        ELSE LET magnitude == Times(Sqrt(NumberOf(sums.value.normA)),
                                    Sqrt(NumberOf(sums.value.normB)))
             IN  IF magnitude = Zero THEN Returned(Zero)
                 ELSE LET cosineSim == DividedBy(NumberOf(sums.value.dot), magnitude)
                      IN  Returned(DividedBy(Plus(cosineSim, One), NumberOf(2)))

\* ----------------------------------------- calculateCosineSimilarity, alone
\* components of the int8 vectors handed to calculateCosineSimilarity
CosineValues == {-3, 0, 1, 3}

InitCS ==
    /\ AtRest
    /\ EmptyTables
    /\ fnIn \in {[fn |-> "calculateCosineSimilarity", vecA |-> a, vecB |-> b] :
                  a \in SeqsOf(CosineValues, 1, vectorSize),
                  b \in SeqsOf(CosineValues, 1, vectorSize)}
    /\ fnOut = NoArg

\* one call of calculateCosineSimilarity(vecA, vecB)
ApplyCalculateCosineSimilarity ==
    /\ fnIn.fn = "calculateCosineSimilarity"
    /\ fnOut = NoArg
    /\ fnOut' = [fn |-> "calculateCosineSimilarity",
                 value |-> CosineSimilarityScore(fnIn.vecA, fnIn.vecB)]
    /\ UNCHANGED <<vault, notes, vectors, lshTables, lsh_configs, lsh_hash_functions,
                   lsh_buckets, isOperationInProgress, isSystemValid, task, ops, fnIn>>

NextCS == ApplyCalculateCosineSimilarity

SpecCS == InitCS /\ [][NextCS]_vars

\* ------------------------------------------------------------------ C15
\* C15: calculateCosineSimilarity raises an error when the lengths differ and
\* returns 0 when either vector has zero magnitude; otherwise the result lies
\* in [0, 1], is the same with the arguments swapped, equals 1 when b = a,
\* 0.5 when the vectors are orthogonal and 0 when b = -a.
C15_CosineSimilarityInUnitRange ==
    fnOut.fn = "calculateCosineSimilarity" =>
        LET a == fnIn.vecA
            b == fnIn.vecB
            r == fnOut.value
        IN  IF Len(a) # Len(b) THEN r.threw
            ELSE /\ ~r.threw
                 /\ IF SumOfProducts(a, a) = 0 \/ SumOfProducts(b, b) = 0
                    THEN r.value = Zero
                    ELSE /\ ~Less(r.value, Zero)
                         /\ ~Less(One, r.value)
                         /\ r = CosineSimilarityScore(b, a)
                         /\ a = b => r.value = One
                         /\ SumOfProducts(a, b) = 0 => r.value = Half
                         /\ (\A i \in 1..Len(a) : b[i] = -a[i]) => r.value = Zero

\* ------------------------------------------------ VectorUtils.processVector
\* vector.reduce((sum, val) => sum + val * val, 0) over the first n components
RECURSIVE SumOfSquares(_, _)
SumOfSquares(vector, n) ==
    IF n = 0 THEN Zero
    ELSE Plus(SumOfSquares(vector, n - 1), Times(vector[n], vector[n]))

\* VectorUtils.l2Normalize(vector)
L2Normalize(vector) ==
    LET magnitude == Sqrt(SumOfSquares(vector, Len(vector)))
    IN  IF magnitude = Zero THEN vector
        ELSE [i \in 1..Len(vector) |-> DividedBy(vector[i], magnitude)]

MathMin(x, y) == IF Less(y, x) THEN y ELSE x
MathMax(x, y) == IF Less(x, y) THEN y ELSE x

\* the integer a natural number of at most two limbs stands for
IntegerOf(a) == LimbAt(a, 1) + Base * LimbAt(a, 2)

\* Math.round(x) for |x| < 2^30: the nearest integer, a tie going up
MathRound(x) ==
    IF x.m = <<>> THEN 0
    ELSE IF x.e >= 0 THEN x.sign * IntegerOf(BigShl(x.m, x.e))
    ELSE LET unit == BigPow2(-x.e)
             whole == BigDiv(x.m, unit)
             twice == BigShl(BigSub(x.m, BigMul(whole, unit)), 1)
         IN  IF x.sign = 1
             THEN IntegerOf(whole) + (IF BigLess(twice, unit) THEN 0 ELSE 1)
             ELSE -(IntegerOf(whole) + (IF BigLess(unit, twice) THEN 1 ELSE 0))

\* the element an Int8Array stores for an integer: it wraps modulo 2^8
ToInt8(n) == ((n + Pow2(7)) % Pow2(8)) - Pow2(7)

\* the factor quantizeToInt8 scales by
QuantizeScale == 127

\* quantizeToInt8 scaling by 128
QuantizeToInt8_Scale128(normalizedVector) ==
    [i \in 1..Len(normalizedVector) |->
        ToInt8(MathRound(Times(MathMax(NumberOf(-1), MathMin(One, normalizedVector[i])),
                               NumberOf(QuantizeScale + 1))))]

\* VectorUtils.quantizeToInt8(normalizedVector)
QuantizeToInt8(normalizedVector) ==
    [i \in 1..Len(normalizedVector) |->
        ToInt8(MathRound(Times(MathMax(NumberOf(-1), MathMin(One, normalizedVector[i])),
                               NumberOf(QuantizeScale))))]

\* VectorUtils.processVector(vector)
ProcessVector(vector) == QuantizeToInt8(L2Normalize(vector))

\* ----------------------------------------------------- processVector, alone
\* components of the float vectors an embedding provider returns, as <<p, q>>
\* for the number p / q
FloatValues == {<<0, 1>>, <<1, 1>>, <<-1, 1>>, <<3, 1>>, <<-3, 1>>, <<1, 2>>, <<-1, 2>>}

FloatOf(pq) == DividedBy(NumberOf(pq[1]), NumberOf(pq[2]))

InitPV ==
    /\ AtRest
    /\ EmptyTables
    /\ fnIn \in {[fn |-> f, vector |-> [i \in 1..Len(v) |-> FloatOf(v[i])]] :
                  f \in {"l2Normalize", "quantizeToInt8", "processVector"},
                  v \in SeqsOf(FloatValues, 0, vectorSize)}
    /\ fnOut = NoArg

\* one call of VectorUtils.l2Normalize(vector)
ApplyL2Normalize ==
    /\ fnIn.fn = "l2Normalize"
    /\ fnOut = NoArg
    /\ fnOut' = [fn |-> "l2Normalize", value |-> L2Normalize(fnIn.vector)]
    /\ UNCHANGED <<vault, notes, vectors, lshTables, lsh_configs, lsh_hash_functions,
                   lsh_buckets, isOperationInProgress, isSystemValid, task, ops, fnIn>>

\* one call of VectorUtils.quantizeToInt8(normalizedVector)
ApplyQuantizeToInt8 ==
    /\ fnIn.fn = "quantizeToInt8"
    /\ fnOut = NoArg
    /\ fnOut' = [fn |-> "quantizeToInt8", value |-> QuantizeToInt8(fnIn.vector)]
    /\ UNCHANGED <<vault, notes, vectors, lshTables, lsh_configs, lsh_hash_functions,
                   lsh_buckets, isOperationInProgress, isSystemValid, task, ops, fnIn>>

\* one call of VectorUtils.processVector(vector)
ApplyProcessVector ==
    /\ fnIn.fn = "processVector"
    /\ fnOut = NoArg
    /\ fnOut' = [fn |-> "processVector", value |-> ProcessVector(fnIn.vector)]
    /\ UNCHANGED <<vault, notes, vectors, lshTables, lsh_configs, lsh_hash_functions,
                   lsh_buckets, isOperationInProgress, isSystemValid, task, ops, fnIn>>

NextPV == ApplyL2Normalize \/ ApplyQuantizeToInt8 \/ ApplyProcessVector

SpecPV == InitPV /\ [][NextPV]_vars

\* ------------------------------------------------------------------ C16
\* x clamped to [-1, 1]
Clamped(x) ==
    IF Less(One, x) THEN One
    ELSE IF Less(x, NumberOf(-1)) THEN NumberOf(-1)
    ELSE x

\* the integer q is a nearest integer to the number y
NearestInteger(q, y) ==
    LET d == Plus(NumberOf(q), [y EXCEPT !.sign = -y.sign])
    IN  ~Less(Half, [d EXCEPT !.sign = 1])

\* C16: processVector maps every float vector to an int8 vector of the same
\* length whose components all lie in [-127, 127], never -128; quantizeToInt8
\* gives for each component the nearest integer to 127 times the component
\* clamped to [-1, 1]; l2Normalize returns a vector of zero magnitude unchanged.
C16_ProcessVectorRange ==
    /\ fnOut.fn = "processVector" =>
          /\ Len(fnOut.value) = Len(fnIn.vector)
          /\ \A i \in 1..Len(fnOut.value) : fnOut.value[i] \in -127..127
    /\ fnOut.fn = "quantizeToInt8" =>
          /\ Len(fnOut.value) = Len(fnIn.vector)
          /\ \A i \in 1..Len(fnOut.value) :
                /\ fnOut.value[i] \in -127..127
                /\ NearestInteger(fnOut.value[i],
                                  Times(Clamped(fnIn.vector[i]), NumberOf(127)))
    /\ fnOut.fn = "l2Normalize" =>
          /\ Len(fnOut.value) = Len(fnIn.vector)
          /\ (\A i \in 1..Len(fnIn.vector) : fnIn.vector[i] = Zero) =>
                fnOut.value = fnIn.vector

\* processVector of (-3, 0): the normalized component -1 becomes -127
C16_Witness ==
    /\ fnOut.fn = "processVector"
    /\ fnIn.vector = <<NumberOf(-3), Zero>>
    /\ fnOut.value = <<-127, 0>>

\* ------------------------------------------------ SearchService.hybridSearch
\* a result of a note vector or a note's full-text row has no block id
NoBlock == 0

\* result.blockId || result.noteId
KeyOf(result) == IF result.blockId # NoBlock THEN result.blockId ELSE result.noteId

HasKey(list, key) == \E i \in 1..Len(list) : KeyOf(list[i]) = key

\* the last entry of the list with the key: Map.set replaces an earlier one
LastWithKey(list, key) ==
    CHOOSE i \in 1..Len(list) :
        /\ KeyOf(list[i]) = key
        /\ \A j \in (i + 1)..Len(list) : KeyOf(list[j]) # key

\* the rank map filled with the index itself
RankIn_ZeroBased(list, key) == LastWithKey(list, key) - 1

\* vectorRankMap.get(key), ftsRankMap.get(key): set to index + 1
RankIn(list, key) == LastWithKey(list, key)

\* the keys of a list in the order a Map first receives them
RECURSIVE KeysInOrder(_, _)
KeysInOrder(list, seen) ==
    IF list = <<>> THEN seen
    ELSE KeysInOrder(Tail(list),
                     IF \E i \in 1..Len(seen) : seen[i] = KeyOf(Head(list))
                     THEN seen ELSE Append(seen, KeyOf(Head(list))))

\* allResultsMap.get(key): the vector result, or else the result built from
\* the first full-text row with the key
ResultOf(vectorResults, ftsResults, key) ==
    IF HasKey(vectorResults, key)
    THEN vectorResults[LastWithKey(vectorResults, key)]
    ELSE ftsResults[CHOOSE i \in 1..Len(ftsResults) :
                        /\ KeyOf(ftsResults[i]) = key
                        /\ \A j \in 1..(i - 1) : KeyOf(ftsResults[j]) # key]

\* const k = 60
RRFConstant == 60

Negated(x) == [x EXCEPT !.sign = -x.sign]

\* what a list adds to the rrfScore of a key: weight * (1 / (k + rank)), and
\* nothing when the rank map of the list lacks the key
RRFContribution(list, key, weight) ==
    IF HasKey(list, key)
    THEN Times(weight, DividedBy(One, NumberOf(RRFConstant + RankIn(list, key))))
    ELSE Zero

\* the score of a key that only an item of both lists gets
RRFScore_BothLists(vectorResults, ftsResults, key, hybridWeight) ==
    IF HasKey(vectorResults, key) /\ HasKey(ftsResults, key)
    THEN Plus(RRFContribution(vectorResults, key, hybridWeight),
              RRFContribution(ftsResults, key, Plus(One, Negated(hybridWeight))))
    ELSE Zero

\* rrfScore of a key of allResultsMap
RRFScore(vectorResults, ftsResults, key, hybridWeight) ==
    Plus(Plus(Zero, RRFContribution(vectorResults, key, hybridWeight)),
         RRFContribution(ftsResults, key, Plus(One, Negated(hybridWeight))))

\* fusedResults.sort((a, b) => b.score - a.score): stable, highest score first
RECURSIVE SortByFusedScore(_)
SortByFusedScore(s) ==
    IF s = <<>> THEN <<>>
    ELSE LET acc == SortByFusedScore(SubSeq(s, 1, Len(s) - 1))
             x == s[Len(s)]
             pos == Cardinality({j \in 1..Len(acc) : ~Less(acc[j].score, x.score)})
         IN  SubSeq(acc, 1, pos) \o <<x>> \o SubSeq(acc, pos + 1, Len(acc))

\* s.slice(0, n)
Slice(s, n) == SubSeq(s, 1, IF n < Len(s) THEN n ELSE Len(s))

\* the keys with their results and scores, in the order of allResultsMap
ScoredResults(vectorResults, ftsResults, hybridWeight) ==
    LET keys == KeysInOrder(vectorResults \o ftsResults, <<>>)
    IN  [i \in 1..Len(keys) |->
            [key |-> keys[i],
             notePath |-> ResultOf(vectorResults, ftsResults, keys[i]).notePath,
             score |-> RRFScore(vectorResults, ftsResults, keys[i], hybridWeight)]]

\* rrfScores: the scored results with rrfScore > 0
RRFScores(scored) == SelectSeq(scored, LAMBDA r : Less(Zero, r.score))

\* fusedResults: the entries of rrfScores with rrfScore >= minScore, sorted
FusedResults(rrfScores, minScore) ==
    SortByFusedScore(SelectSeq(rrfScores, LAMBDA r : ~Less(r.score, minScore)))

\* result => !excludeNotePaths.includes(result.notePath)
NotExcluded(results, excludeNotePaths) ==
    SelectSeq(results, LAMBDA r : \A i \in 1..Len(excludeNotePaths) :
                                      excludeNotePaths[i] # r.notePath)

\* finalResults that drops the excluded paths before it truncates
FinalResults_ExcludeFirst(fusedResults, topK, excludeNotePaths) ==
    Slice(NotExcluded(fusedResults, excludeNotePaths), topK)

\* finalResults: the first topK fused results, then without the excluded paths
FinalResults(fusedResults, topK, excludeNotePaths) ==
    IF Len(excludeNotePaths) > 0
    THEN NotExcluded(Slice(fusedResults, topK), excludeNotePaths)
    ELSE Slice(fusedResults, topK)

\* what hybridSearch returns (finalResults), with the rrfScores and the sorted
\* fusedResults it was made from
Fused(rrfScores, fusedResults, finalResults) ==
    [rrfScores |-> rrfScores, fusedResults |-> fusedResults, finalResults |-> finalResults]

\* the rest of hybridSearch once rrfScores is filled
FuseScores(rrfScores, topK, minScore, excludeNotePaths) ==
    Fused(rrfScores, FusedResults(rrfScores, minScore),
          FinalResults(FusedResults(rrfScores, minScore), topK, excludeNotePaths))

\* hybridSearch once vectorSearch and searchFTS have answered
HybridSearch(vectorResults, ftsResults, topK, minScore, excludeNotePaths, hybridWeight) ==
    FuseScores(RRFScores(ScoredResults(vectorResults, ftsResults, hybridWeight)),
               topK, minScore, excludeNotePaths)

\* ------------------------------------------------------ hybridSearch, alone
MaxResults == 2    \* longest vector result list and full-text result list

\* the results the two searches can return: the note vector of note 1, a
\* block of note 1, the note vector of note 2
HybridItems ==
    {[noteId |-> 1, blockId |-> NoBlock, notePath |-> 1],
     [noteId |-> 1, blockId |-> 3, notePath |-> 1],
     [noteId |-> 2, blockId |-> NoBlock, notePath |-> 2]}

\* lists of at most n results, no key twice
ResultLists(n) ==
    {l \in SeqsOf(HybridItems, 0, n) :
        \A i, j \in 1..Len(l) : i # j => KeyOf(l[i]) # KeyOf(l[j])}

\* options.hybridWeight and options.minScore, as <<p, q>> for p / q
HybridWeights == {<<0, 1>>, <<3, 10>>, <<1, 2>>, <<1, 1>>}
MinScores == {<<0, 1>>, <<1, 125>>}

\* vectorSearch has applied topK and excludeNotePaths to its list already, and
\* searchFTS returns at most topK * 2 rows
InitHS ==
    /\ AtRest
    /\ EmptyTables
    /\ \E k \in TopKs, m \in MinScores, x \in {<<>>, <<1>>}, w \in HybridWeights :
          \E v \in {l \in ResultLists(MaxResults) :
                        /\ Len(l) <= k
                        /\ \A i \in 1..Len(l), j \in 1..Len(x) : l[i].notePath # x[j]},
             f \in {l \in ResultLists(MaxResults) : Len(l) <= k * 2} :
              fnIn = [fn |-> "hybridSearch", vectorResults |-> v, ftsResults |-> f,
                      topK |-> k, minScore |-> FloatOf(m), excludeNotePaths |-> x,
                      hybridWeight |-> FloatOf(w)]
    /\ fnOut = NoArg

\* one call of hybridSearch, from the answers of the two searches on
ApplyHybridSearch ==
    /\ fnIn.fn = "hybridSearch"
    /\ fnOut = NoArg
    /\ fnOut' = [fn |-> "hybridSearch",
                 value |-> HybridSearch(fnIn.vectorResults, fnIn.ftsResults, fnIn.topK,
                                        fnIn.minScore, fnIn.excludeNotePaths,
                                        fnIn.hybridWeight)]
    /\ UNCHANGED <<vault, notes, vectors, lshTables, lsh_configs, lsh_hash_functions,
                   lsh_buckets, isOperationInProgress, isSystemValid, task, ops, fnIn>>

NextHS == ApplyHybridSearch

SpecHS == InitHS /\ [][NextHS]_vars

\* ------------------------------------------------------------------ C17
\* what identifies an item: its block id when it has one, else its note id
ItemId(result) == IF result.blockId = NoBlock THEN result.noteId ELSE result.blockId

\* the 1-based rank of an item in a result list, 0 when the list lacks it
RankOfItem(list, id) ==
    IF \E i \in 1..Len(list) : ItemId(list[i]) = id
    THEN CHOOSE i \in 1..Len(list) : ItemId(list[i]) = id
    ELSE 0

\* weight * 1/(60 + rank), and 0 for a list the item is absent from
RRFTerm(weight, rank) ==
    IF rank = 0 THEN Zero ELSE Times(weight, DividedBy(One, NumberOf(60 + rank)))

\* weight * 1/(60 + rv) + (1 - weight) * 1/(60 + rf)
FusedScore(in, id) ==
    Plus(RRFTerm(in.hybridWeight, RankOfItem(in.vectorResults, id)),
         RRFTerm(Plus(One, [in.hybridWeight EXCEPT !.sign = -in.hybridWeight.sign]),
                 RankOfItem(in.ftsResults, id)))

\* the items of the two result lists of a call
ItemsOf(in) ==
    {ItemId(in.vectorResults[i]) : i \in 1..Len(in.vectorResults)}
        \cup {ItemId(in.ftsResults[i]) : i \in 1..Len(in.ftsResults)}

SingleListItems(in) ==
    {id \in ItemsOf(in) :
        (RankOfItem(in.vectorResults, id) = 0) # (RankOfItem(in.ftsResults, id) = 0)}

\* the item has a strictly positive recorded score
ScoredPositive(out, id) ==
    \E i \in 1..Len(out.rrfScores) :
        out.rrfScores[i].key = id /\ Less(Zero, out.rrfScores[i].score)

\* the item is in the fused list before truncation unless minScore rules it out
KeptBeforeTruncation(in, out, id) ==
    \A i \in 1..Len(out.rrfScores) :
        (out.rrfScores[i].key = id /\ ~Less(out.rrfScores[i].score, in.minScore))
            => \E j \in 1..Len(out.fusedResults) : out.fusedResults[j].key = id

\* the item is in none of the lists hybridSearch builds
Dropped(out, id) ==
    /\ \A i \in 1..Len(out.rrfScores) : out.rrfScores[i].key # id
    /\ \A i \in 1..Len(out.fusedResults) : out.fusedResults[i].key # id
    /\ \A i \in 1..Len(out.finalResults) : out.finalResults[i].key # id

\* C18, as stated: for every hybridWeight in [0, 1] an item that only one of
\* the two lists holds gets a strictly positive fused score and is kept in
\* the fused list before truncation.
C18_SingleListItemScoresPositive ==
    fnOut.fn = "hybridSearch" =>
        \A id \in SingleListItems(fnIn) :
            /\ ScoredPositive(fnOut.value, id)
            /\ KeptBeforeTruncation(fnIn, fnOut.value, id)

\* C18, amended: for every hybridWeight strictly between 0 and 1 an item that
\* only one of the two lists holds gets a strictly positive fused score and
\* is kept in the fused list before truncation when the score reaches
\* minScore; at hybridWeight 0 an item of the vector list alone, and at
\* hybridWeight 1 an item of the full-text list alone, scores 0 and is
\* dropped, while the items of the other list alone are scored and kept.
C18_SingleListItemScoresPositiveInside ==
    fnOut.fn = "hybridSearch" =>
        \A id \in SingleListItems(fnIn) :
            LET vectorOnly == RankOfItem(fnIn.ftsResults, id) = 0
                weightless == IF vectorOnly THEN fnIn.hybridWeight = Zero
                              ELSE fnIn.hybridWeight = One
            IN  IF weightless THEN Dropped(fnOut.value, id)
                ELSE /\ ScoredPositive(fnOut.value, id)
                     /\ KeptBeforeTruncation(fnIn, fnOut.value, id)

\* weight 0.3 and minScore 0: note 2, found by the text alone, is scored
\* 0.7 * 1/62 and returned
C18_Witness ==
    /\ fnOut.fn = "hybridSearch"
    /\ fnIn.hybridWeight = FloatOf(<<3, 10>>)
    /\ fnIn.minScore = Zero
    /\ 2 \in SingleListItems(fnIn)
    /\ RankOfItem(fnIn.vectorResults, 2) = 0
    /\ RankOfItem(fnIn.ftsResults, 2) = 2
    /\ ScoredPositive(fnOut.value, 2)
    /\ \E j \in 1..Len(fnOut.value.finalResults) : fnOut.value.finalResults[j].key = 2

\* ------------------------------------------------------------------ C19
\* the note path is one of the excluded ones
Excluded(in, notePath) ==
    \E i \in 1..Len(in.excludeNotePaths) : in.excludeNotePaths[i] = notePath

\* no entry of the list has a lower score than a later one
NonIncreasing(list) ==
    \A i, j \in 1..Len(list) : i < j => ~Less(list[i].score, list[j].score)

\* the 1-based positions of the fused list that survive truncation to topK
\* and the exclusion that follows it
Surviving(in, fused) ==
    {i \in 1..Len(fused) : i <= in.topK /\ ~Excluded(in, fused[i].notePath)}

\* C19: hybridSearch keeps the items whose fused score is at least minScore,
\* sorts them by descending score, truncates to the first topK and only then
\* drops the results whose notePath is excluded: the returned list is sorted
\* by non-increasing score, has at most topK entries and no excluded path,
\* and consists of exactly the non-excluded entries among the first topK of
\* the sorted list, in their order.
C19_FilterSortTruncateExclude ==
    fnOut.fn = "hybridSearch" =>
        LET scores == fnOut.value.rrfScores
            fused == fnOut.value.fusedResults
            final == fnOut.value.finalResults
        IN  /\ \A i \in 1..Len(scores) :
                  ~Less(scores[i].score, fnIn.minScore)
                      <=> \E j \in 1..Len(fused) : fused[j] = scores[i]
            /\ \A j \in 1..Len(fused) : \E i \in 1..Len(scores) : scores[i] = fused[j]
            /\ \A i, j \in 1..Len(fused) : i # j => fused[i].key # fused[j].key
            /\ NonIncreasing(fused)
            /\ NonIncreasing(final)
            /\ Len(final) <= fnIn.topK
            /\ \A i \in 1..Len(final) : ~Excluded(fnIn, final[i].notePath)
            /\ Len(final) = Cardinality(Surviving(fnIn, fused))
            /\ \A i \in 1..Len(final) :
                  \E p \in Surviving(fnIn, fused) :
                      /\ final[i] = fused[p]
                      /\ Cardinality({q \in Surviving(fnIn, fused) : q < p}) = i - 1

\* topK 1, note 1 excluded, the text finds note 1 and then note 2: the one
\* place goes to note 1, which is then dropped, and nothing is returned
\* although note 2 passed minScore and is not excluded
C19_Witness ==
    /\ fnOut.fn = "hybridSearch"
    /\ fnIn.topK = 1
    /\ fnIn.excludeNotePaths = <<1>>
    /\ Len(fnOut.value.fusedResults) = 2
    /\ fnOut.value.fusedResults[1].notePath = 1
    /\ fnOut.value.fusedResults[2].notePath = 2
    /\ ~Excluded(fnIn, fnOut.value.fusedResults[2].notePath)
    /\ fnOut.value.finalResults = <<>>

\* ------------------------------------------------------------------ C20
\* the vectors table rows owned by a note
VectorsOfNote(rows, noteId) == SelectSeq(rows, LAMBDA v : v.note_id = noteId)

\* this step ends a processOneFileIntoDatabase that found changed content and
\* stored its vector: the last save has returned
ProcessOneFileSucceeds(t) ==
    task[t].pc = "pf_vec_save" /\ task'[t].pc # "pf_vec_save"

\* this step ends a handleFileDelete that found the note in the database
FileDeleteCompletes(t) ==
    task[t].pc = "del_vec_save" /\ task'[t].pc = "done"

\* the note's rows are the one vector of its present text, created after the
\* note was last updated
Superseded(t) ==
    LET mine == VectorsOfNote(vectors', task[t].noteId)
        note == SelectSeq(notes', LAMBDA n : n.id = task[t].noteId)
    IN  /\ Len(note) = 1
        /\ note[1].text = vault'[task[t].file]
        /\ Len(mine) = 1
        /\ mine[1].upToDate
        /\ mine[1].type = "note"
        /\ mine[1].vector = Embedding(note[1].text)
        /\ \A i \in 1..Len(vectors) : vectors[i].note_id = task[t].noteId =>
              ~vectors[i].upToDate \/ vectors[i] = mine[1]

\* C20, first part: once processOneFileIntoDatabase completes successfully for
\* a file whose content changed, every vector the note had before the change
\* has been deleted and its vectors are those created from the new content.
C20_VectorsSupersededOnChange ==
    [][\A t \in Tasks : ProcessOneFileSucceeds(t) => Superseded(t)]_vars

\* C20, second part: once handleFileDelete completes for an indexed note, no
\* vector owned by that note remains in the store.
C20_VectorsDeletedWithNote ==
    [][\A t \in Tasks : FileDeleteCompletes(t) =>
            VectorsOfNote(vectors', task[t].noteId) = <<>>]_vars

\* C20: both parts
C20_VectorLifecycle ==
    [][\A t \in Tasks :
          /\ ProcessOneFileSucceeds(t) => Superseded(t)
          /\ FileDeleteCompletes(t) => VectorsOfNote(vectors', task[t].noteId) = <<>>]_vars

\* ------------------------------------------------------------------ C21
\* no handler is in flight
Quiescent == \A t \in Tasks : Free(t)

\* C21: the index is regenerated when performAutomaticSetup or a file
\* create/modify ingestion completes, so in every quiescent state with an
\* LSH config present every stored vector has a bucket entry and every
\* bucket entry refers to a stored vector.
C21_IndexFollowsIngestion ==
    (/\ Quiescent
     /\ lsh_configs # <<>>
     /\ \E t \in Tasks : task[t].pc = "done" /\ task[t].kind \in {"setup", "modify"}) =>
        /\ \A i \in 1..Len(vectors) :
              \E j \in 1..Len(lsh_buckets) : lsh_buckets[j].vector_id = vectors[i].id
        /\ \A j \in 1..Len(lsh_buckets) :
              \E i \in 1..Len(vectors) : vectors[i].id = lsh_buckets[j].vector_id

\* ------------------------------------------------------------------ C22
\* the steps that continue a handler in flight: the persistence or provider
\* call it awaits has returned or failed
Resume(t) ==
    \/ SetupValidated(t)
    \/ SetupFinish(t)
    \/ SaveAndReindexValidated(t)
    \/ RebuildDatabaseFinish(t)
    \/ HandleFileDeleteNote(t)
    \/ ProcessFileRead(t)
    \/ ProcessFileDeleteVectors(t)
    \/ ProcessNoteVector(t)
    \/ ProcessNoteEmbedded(t)
    \/ ProcessFileDone(t)
    \/ GenAfterClear(t)
    \/ GenAfterConfig(t)
    \/ GenAfterHashFunction(t)
    \/ GenAfterBucket(t)
    \/ GenSaveFails(t)
    \/ VectorSearchRun(t)

\* every call a handler awaits eventually returns or fails
SpecSeqLive == Init /\ [][NextSeq]_vars /\ WF_vars(Resume(1))

\* the handler is a rebuildDatabase or a performValidationAndSetup in flight
Rebuilding(t) == task[t].kind \in {"rebuildDatabase", "setup"} /\ ~Free(t)

\* the handler has ended and has released isOperationInProgress; a
\* rebuildDatabase has done all its steps or has reported the failed build
EndedAndReleased(t) ==
    /\ task[t].pc = "done"
    /\ ~isOperationInProgress
    /\ task[t].kind = "rebuildDatabase" =>
          \/ task[t].genResult \in {"noop", "returned"} /\ isSystemValid
          \/ task[t].genResult \in GenFailures

\* C22: a started rebuildDatabase is never cancelled: when every persistence
\* and provider call eventually returns or fails, it eventually completes
\* all its steps or reports a failure, and isOperationInProgress is false
\* then; the same holds for performValidationAndSetup.
C22_RebuildRunsToCompletion ==
    /\ [](\A t \in Tasks :
             (task[t].kind \in {"rebuildDatabase", "setup"} /\ task[t].pc = "done")
                 => EndedAndReleased(t))
    /\ \A t \in Tasks : Rebuilding(t) ~> EndedAndReleased(t)

\* a rebuildDatabase over two notes has built the index and ended
C22_Witness ==
    \E t \in Tasks :
        /\ task[t].kind = "rebuildDatabase"
        /\ task[t].pc = "done"
        /\ task[t].genResult = "returned"
        /\ Len(lsh_buckets) = 2
        /\ isSystemValid
        /\ ~isOperationInProgress

\* ------------------------------------------------- ChunkingService.chunkText
MaxTokens == 5       \* most tokens of a chunked text
MaxChunkSize == 3    \* largest chunkSize of a ChunkingService
MaxOverlap == 4      \* largest overlap of a ChunkingService

\* variant: the next chunk starts behind the overlap instead of before it
Advance_PastOverlap(chunkSize, overlap) == chunkSize + overlap

\* how far startTokenIndex moves after a chunk
Advance(chunkSize, overlap) ==
    IF chunkSize - overlap > 1 THEN chunkSize - overlap ELSE 1

\* the lengths in characters drawn for a text of tokenCount tokens
TextLengths(tokenCount) ==
    IF tokenCount = 0 THEN {0} ELSE {tokenCount, tokenCount + 1, 3 * tokenCount}

\* Math.round(tokenIndex * charToTokenRatio), where charToTokenRatio is
\* text.length / tokens.length, tabulated for the texts drawn
CharIndex ==
    [tokenCount \in 1..MaxTokens |->
        [textLength \in TextLengths(tokenCount) |->
            [tokenIndex \in 0..tokenCount |->
                MathRound(Times(NumberOf(tokenIndex),
                                DividedBy(NumberOf(textLength), NumberOf(tokenCount))))]]]

\* the chunk of the tokens from startTokenIndex up to endTokenIndex; its
\* text is what the encoder decodes from them
Chunk(tokens, textLength, startTokenIndex, endTokenIndex) ==
    [text |-> SubSeq(tokens, startTokenIndex + 1, endTokenIndex),
     startIndex |-> CharIndex[Len(tokens)][textLength][startTokenIndex],
     endIndex |-> CharIndex[Len(tokens)][textLength][endTokenIndex],
     tokenCount |-> endTokenIndex - startTokenIndex]

\* a text is drawn as its tokens, each one standing for its own position,
\* and its length in characters
InitCT ==
    /\ AtRest
    /\ EmptyTables
    /\ fnIn \in {[fn |-> "chunkText", tokens |-> [i \in 1..n |-> i], textLength |-> len,
                  chunkSize |-> c, overlap |-> o] :
                  n \in 0..MaxTokens, len \in 0..(3 * MaxTokens),
                  c \in 1..MaxChunkSize, o \in 0..MaxOverlap}
    /\ fnIn.textLength \in TextLengths(Len(fnIn.tokens))
    /\ fnOut = NoArg

\* chunkText up to its loop: a text of at most chunkSize tokens is one chunk
ChunkTextEncode ==
    /\ fnIn.fn = "chunkText"
    /\ fnOut = NoArg
    /\ fnOut' = IF Len(fnIn.tokens) <= fnIn.chunkSize
                THEN [pc |-> "returned", startTokenIndex |-> 0,
                      chunks |-> <<[text |-> fnIn.tokens, startIndex |-> 0,
                                    endIndex |-> fnIn.textLength,
                                    tokenCount |-> Len(fnIn.tokens)]>>]
                ELSE [pc |-> "loop", startTokenIndex |-> 0, chunks |-> <<>>]
    /\ UNCHANGED <<vault, notes, vectors, lshTables, lsh_configs, lsh_hash_functions,
                   lsh_buckets, isOperationInProgress, isSystemValid, task, ops, fnIn>>

\* one iteration of the loop
ChunkTextIterate ==
    /\ fnOut # NoArg
    /\ fnOut.pc = "loop"
    /\ fnOut.startTokenIndex < Len(fnIn.tokens)
    /\ \E endTokenIndex \in {IF fnOut.startTokenIndex + fnIn.chunkSize < Len(fnIn.tokens)
                             THEN fnOut.startTokenIndex + fnIn.chunkSize
                             ELSE Len(fnIn.tokens)} :
          fnOut' = [fnOut EXCEPT
                      !.chunks = Append(@, Chunk(fnIn.tokens, fnIn.textLength,
                                                 fnOut.startTokenIndex, endTokenIndex)),
                      !.startTokenIndex = @ + Advance(fnIn.chunkSize, fnIn.overlap)]
    /\ UNCHANGED <<vault, notes, vectors, lshTables, lsh_configs, lsh_hash_functions,
                   lsh_buckets, isOperationInProgress, isSystemValid, task, ops, fnIn>>

\* the loop condition fails: the chunks are returned
ChunkTextReturn ==
    /\ fnOut # NoArg
    /\ fnOut.pc = "loop"
    /\ fnOut.startTokenIndex >= Len(fnIn.tokens)
    /\ fnOut' = [fnOut EXCEPT !.pc = "returned"]
    /\ UNCHANGED <<vault, notes, vectors, lshTables, lsh_configs, lsh_hash_functions,
                   lsh_buckets, isOperationInProgress, isSystemValid, task, ops, fnIn>>

NextCT == ChunkTextEncode \/ ChunkTextIterate \/ ChunkTextReturn

\* chunkText is never suspended for good: it awaits nothing inside its loop
SpecCT == InitCT /\ [][NextCT]_vars /\ WF_vars(NextCT)

\* ------------------------------------------------------------------ C23
ChunkTextReturned == fnOut # NoArg /\ fnOut.pc = "returned"

\* C23: chunkText terminates for every text, every chunkSize >= 1 and every
\* overlap >= 0, overlap >= chunkSize included, the start index advancing by
\* max(1, chunkSize - overlap) on every iteration; a text of at most
\* chunkSize tokens gives exactly one chunk, and otherwise every chunk holds
\* between 1 and chunkSize tokens, the chunks are in non-decreasing start
\* order and every token of the text is in at least one chunk.
C23_ChunkTextTerminatesAndCovers ==
    /\ <>ChunkTextReturned
    /\ [][ChunkTextIterate =>
             /\ fnOut'.startTokenIndex > fnOut.startTokenIndex
             /\ fnOut'.startTokenIndex - fnOut.startTokenIndex =
                   (IF fnIn.chunkSize - fnIn.overlap >= 1
                    THEN fnIn.chunkSize - fnIn.overlap ELSE 1)]_vars
    /\ [](ChunkTextReturned =>
            LET chunks == fnOut.chunks
            IN  IF Len(fnIn.tokens) <= fnIn.chunkSize
                THEN /\ Len(chunks) = 1
                     /\ chunks[1].text = fnIn.tokens
                ELSE /\ \A i \in 1..Len(chunks) :
                           /\ chunks[i].tokenCount \in 1..fnIn.chunkSize
                           /\ chunks[i].tokenCount = Len(chunks[i].text)
                     /\ \A i \in 2..Len(chunks) :
                           /\ chunks[i].startIndex >= chunks[i - 1].startIndex
                           /\ chunks[i].text[1] >= chunks[i - 1].text[1]
                     /\ \A k \in 1..Len(fnIn.tokens) :
                           \E i \in 1..Len(chunks) : fnIn.tokens[k] \in Range(chunks[i].text))

\* a text of five tokens chunked with an overlap above the chunk size
C23_Witness ==
    /\ ChunkTextReturned
    /\ fnIn.overlap > fnIn.chunkSize
    /\ Len(fnIn.tokens) = MaxTokens
    /\ Len(fnOut.chunks) = MaxTokens

\* ------------------------------------------------------------------ C24
\* saveAndReindex has reported 'Reindexing completed successfully!'
ReindexReported(t) ==
    /\ task[t].kind = "saveAndReindex"
    /\ task[t].pc = "done"
    /\ task[t].outcome.kind = "reindexCompleted"

\* C24: when saveAndReindex runs while no other operation is in progress
\* and the provider validation succeeds, the database has been rebuilt by
\* the time the reindexing is reported as completed: every file of the
\* vault has been processed again, so it has a note row with its text.
C24_SaveAndReindexRebuilds ==
    \A t \in Tasks :
        ReindexReported(t) =>
            \A p \in Paths :
                vault[p] # NoFile =>
                    \E i \in 1..Len(notes) : notes[i].path = p /\ notes[i].text = vault[p]

\* ------------------------------- OpenAIEmbeddingProvider.makeRequestWithRetry
MaxRetries == 4    \* largest maxRetries handed to makeRequestWithRetry

\* the messages of the errors a request is rejected with
ErrorMessages == {"429 Too Many Requests", "rate_limit_exceeded: try again in 2s",
                  "401 Unauthorized", "fetch failed"}

\* what a request resolves to
Responses == {"embeddings1", "embeddings2"}

\* error.message.includes('429') || error.message.includes('rate_limit_exceeded')
IsRateLimit(message) ==
    message \in {"429 Too Many Requests", "rate_limit_exceeded: try again in 2s"}

\* variant: no attempt counts as the last one
IsLastAttempt_Never(attempt, maxRetries) == FALSE

IsLastAttempt(attempt, maxRetries) == attempt = maxRetries

InitMR ==
    /\ AtRest
    /\ EmptyTables
    /\ fnIn \in {[fn |-> "makeRequestWithRetry", maxRetries |-> n] : n \in 0..MaxRetries}
    /\ fnOut = NoArg

\* the loop head: the next attempt calls requestFn, or the loop is over
LoopHead(out, attempt) ==
    IF attempt <= fnIn.maxRetries
    THEN [out EXCEPT !.pc = "request", !.attempt = attempt, !.calls = @ + 1]
    ELSE [out EXCEPT !.pc = "threw", !.attempt = attempt,
                     !.error = "Max retries exceeded"]

\* makeRequestWithRetry up to its first call of requestFn
MakeRequestWithRetry ==
    /\ fnIn.fn = "makeRequestWithRetry"
    /\ fnOut = NoArg
    /\ fnOut' = LoopHead([pc |-> "start", attempt |-> 0, calls |-> 0, errors |-> <<>>,
                          retried |-> <<>>, error |-> "", result |-> ""], 1)
    /\ UNCHANGED <<vault, notes, vectors, lshTables, lsh_configs, lsh_hash_functions,
                   lsh_buckets, isOperationInProgress, isSystemValid, task, ops, fnIn>>

\* requestFn resolves: its value is returned
RequestResolves ==
    /\ fnOut # NoArg
    /\ fnOut.pc = "request"
    /\ \E response \in Responses :
          fnOut' = [fnOut EXCEPT !.pc = "returned", !.result = response]
    /\ UNCHANGED <<vault, notes, vectors, lshTables, lsh_configs, lsh_hash_functions,
                   lsh_buckets, isOperationInProgress, isSystemValid, task, ops, fnIn>>

\* requestFn rejects: the catch block waits for the retry delay or rethrows
RequestRejects ==
    /\ fnOut # NoArg
    /\ fnOut.pc = "request"
    /\ \E message \in ErrorMessages :
          fnOut' = IF IsRateLimit(message) /\ ~IsLastAttempt(fnOut.attempt, fnIn.maxRetries)
                   THEN [fnOut EXCEPT !.pc = "delay", !.errors = Append(@, message),
                                      !.retried = Append(@, fnOut.attempt)]
                   ELSE [fnOut EXCEPT !.pc = "threw", !.errors = Append(@, message),
                                      !.error = message]
    /\ UNCHANGED <<vault, notes, vectors, lshTables, lsh_configs, lsh_hash_functions,
                   lsh_buckets, isOperationInProgress, isSystemValid, task, ops, fnIn>>

\* the retry delay has elapsed: continue with the next attempt
RetryDelayElapsed ==
    /\ fnOut # NoArg
    /\ fnOut.pc = "delay"
    /\ fnOut' = LoopHead(fnOut, fnOut.attempt + 1)
    /\ UNCHANGED <<vault, notes, vectors, lshTables, lsh_configs, lsh_hash_functions,
                   lsh_buckets, isOperationInProgress, isSystemValid, task, ops, fnIn>>

NextMR == MakeRequestWithRetry \/ RequestResolves \/ RequestRejects \/ RetryDelayElapsed

SpecMR == InitMR /\ [][NextMR]_vars

\* ------------------------------------------------------------------ C25
\* C25: makeRequestWithRetry calls the request function at most maxRetries
\* times; it retries only after a rate-limit error on an attempt that is not
\* the last; any other error, and a rate-limit error on the last attempt, is
\* rethrown without a further attempt; the first successful result is
\* returned at once.
C25_RetryOnlyOnRateLimit ==
    fnOut # NoArg =>
        /\ fnOut.calls <= fnIn.maxRetries
        /\ \A i \in 1..Len(fnOut.retried) :
              /\ IsRateLimit(fnOut.errors[i])
              /\ fnOut.retried[i] = i
              /\ i # fnIn.maxRetries
        /\ fnOut.pc \in {"request", "delay"} => Len(fnOut.retried) = Len(fnOut.errors)
        /\ fnOut.pc = "request" => fnOut.calls = Len(fnOut.errors) + 1
        /\ fnOut.pc = "returned" =>
              /\ fnOut.calls = Len(fnOut.errors) + 1
              /\ Len(fnOut.retried) = Len(fnOut.errors)
              /\ fnOut.result \in Responses
        /\ (fnOut.pc = "threw" /\ fnIn.maxRetries > 0) =>
              /\ fnOut.calls = Len(fnOut.errors)
              /\ fnOut.error = fnOut.errors[fnOut.calls]
              /\ Len(fnOut.retried) = fnOut.calls - 1
              /\ ~IsRateLimit(fnOut.error) \/ fnOut.calls = fnIn.maxRetries

\* the last attempt allowed is rate limited as well and its error rethrown
C25_Witness ==
    /\ fnOut # NoArg
    /\ fnOut.pc = "threw"
    /\ fnIn.maxRetries = MaxRetries
    /\ fnOut.calls = MaxRetries
    /\ IsRateLimit(fnOut.error)

\* ------------------------------------------- debouncedSearch, dynamic search
MaxTime == 3     \* last value of the clock Date.now() reads
MaxCalls == 3    \* debouncedSearch calls in one behaviour

\* contexts handed to debouncedSearch, and what context.trim() makes of them
SearchContexts == {"", "  ", "alpha", "beta"}

TrimContext(context) == IF context = "  " THEN "" ELSE context

\* getSearchDebounceDelay for the search cadences, in clock ticks
DebounceDelays == {1, 2}

\* the milliseconds handed to suppressSearchFor, in clock ticks
SuppressFor == {1, 2}

\* variant: the pending timer is left alone
ClearTimeout_Kept(timers, id) == timers

\* window.clearTimeout: a timer that has fired or was cleared is not there
ClearTimeout(timers, id) == {tm \in timers : tm.id # id}

\* the plugin's search state after onload, the search view open
InitDS ==
    /\ AtRest
    /\ EmptyTables
    /\ fnIn = [fn |-> "dynamicSearch"]
    /\ fnOut = [now |-> 0, searchSuppressedUntil |-> 0, searchDebounceTimer |-> 0,
                timers |-> {}, calls |-> 0, lastSearchContext |-> "",
                searches |-> <<>>, inFlight |-> {}, updates |-> <<>>, shown |-> 0]

StepDS(out) ==
    /\ fnIn.fn = "dynamicSearch"
    /\ fnOut' = out
    /\ UNCHANGED <<vault, notes, vectors, lshTables, lsh_configs, lsh_hash_functions,
                   lsh_buckets, isOperationInProgress, isSystemValid, task, ops, fnIn>>

\* time passes
ClockTick ==
    /\ fnOut.now < MaxTime
    /\ StepDS([fnOut EXCEPT !.now = @ + 1])

\* debouncedSearch(context): nothing while suppressed, otherwise the pending
\* timer is cleared and a new one is set
DebouncedSearch ==
    /\ fnOut.calls < MaxCalls
    /\ \E context \in SearchContexts, debounceDelay \in DebounceDelays :
          IF fnOut.now < fnOut.searchSuppressedUntil
          THEN StepDS([fnOut EXCEPT !.calls = @ + 1])
          ELSE StepDS([fnOut EXCEPT
                  !.calls = @ + 1,
                  !.searchDebounceTimer = fnOut.calls + 1,
                  !.timers = (IF fnOut.searchDebounceTimer # 0
                              THEN ClearTimeout(@, fnOut.searchDebounceTimer) ELSE @)
                             \cup {[id |-> fnOut.calls + 1, context |-> context,
                                    due |-> fnOut.now + debounceDelay]}])

\* the timer callback of debouncedSearch runs: performDynamicSearch up to
\* its await of the search
DebounceTimerFires ==
    \E tm \in fnOut.timers :
        /\ tm.due <= fnOut.now
        /\ IF fnOut.now < fnOut.searchSuppressedUntil \/ TrimContext(tm.context) = ""
           THEN StepDS([fnOut EXCEPT !.timers = @ \ {tm}])
           ELSE StepDS([fnOut EXCEPT
                   !.timers = @ \ {tm},
                   !.lastSearchContext = tm.context,
                   !.searches = Append(@, [timer |-> tm.id, context |-> tm.context,
                                           startedAt |-> fnOut.now,
                                           suppressedUntil |-> fnOut.searchSuppressedUntil,
                                           latestTimer |-> fnOut.searchDebounceTimer]),
                   !.inFlight = @ \cup {Len(fnOut.searches) + 1}])

\* suppressSearchFor(milliseconds)
SuppressSearchFor ==
    \E milliseconds \in SuppressFor :
        /\ fnOut.searchSuppressedUntil # fnOut.now + milliseconds
        /\ StepDS([fnOut EXCEPT !.searchSuppressedUntil = fnOut.now + milliseconds])

\* the search of performDynamicSearch returns or throws: updateSearchPanel
\* sets a timer that will hand the results, or none, to the view; searches
\* settle in any order
SearchSettles ==
    \E k \in fnOut.inFlight :
        StepDS([fnOut EXCEPT !.inFlight = @ \ {k}, !.updates = Append(@, k)])

\* the oldest timer of updateSearchPanel runs (they all have delay 0, so
\* they run in the order they were set): view.updateSearchResults(results)
UpdateSearchResults ==
    /\ fnOut.updates # <<>>
    /\ StepDS([fnOut EXCEPT !.updates = Tail(@), !.shown = Head(fnOut.updates)])

NextDS ==
    \/ ClockTick
    \/ DebouncedSearch
    \/ DebounceTimerFires
    \/ SuppressSearchFor
    \/ SearchSettles
    \/ UpdateSearchResults

SpecDS == InitDS /\ [][NextDS]_vars

\* ------------------------------------------------------------------ C26
\* C26: after any sequence of debouncedSearch calls at most one search timer
\* is pending; a call made while search is not suppressed cancels the timer
\* of every earlier call, so a search is only ever started by the timer of
\* the latest such call; no dynamic search is started at a time earlier
\* than searchSuppressedUntil, nor for a blank context.
C26_Debounce ==
    /\ Cardinality(fnOut.timers) <= 1
    /\ \A tm \in fnOut.timers : tm.id = fnOut.searchDebounceTimer
    /\ \A k \in 1..Len(fnOut.searches) :
          LET search == fnOut.searches[k]
          IN  /\ search.timer = search.latestTimer
              /\ search.startedAt >= search.suppressedUntil
              /\ TrimContext(search.context) # ""

\* a second call replaced the timer of the first, the second timer started
\* a search, and a later suppressed call changed nothing
C26_Witness ==
    /\ fnOut.calls = 3
    /\ Len(fnOut.searches) = 1
    /\ fnOut.searches[1].timer = 2
    /\ fnOut.searchDebounceTimer = 2
    /\ fnOut.now < fnOut.searchSuppressedUntil

\* ------------------------------------------------------------------ C28
\* C28: when several dynamic searches are in flight at once, the search
\* panel ends up showing the results of the most recently started search:
\* once every search has settled and every panel update has run, the view
\* shows the results of the last search started.
C28_PanelShowsLatestSearch ==
    (/\ fnOut.searches # <<>>
     /\ fnOut.inFlight = {}
     /\ fnOut.updates = <<>>) => fnOut.shown = Len(fnOut.searches)

\* ------------------------------------------------------------------ C27
\* C27: after any interleaving of file create and modify events, whose
\* handlers run concurrently and suspend at persistence and embedding calls,
\* each note has at most one NOTE-type vector.
C27_OneNoteVectorPerNote ==
    Quiescent =>
        \A i \in 1..Len(vectors), j \in 1..Len(vectors) :
            (vectors[i].note_id = vectors[j].note_id
             /\ vectors[i].type = "note" /\ vectors[j].type = "note") => i = j

\* ----------------------------- ingestion with blocks and the full-text index
\* One handler at a time, each run as a whole: the notes, blocks, vectors
\* and fts_content tables, the files of the vault and the state of the
\* embedding provider are the fields of fnOut.
MaxFileOps == 3    \* file events and processing passes in one behaviour

\* the texts of markdown files and the length of text.trim()
FileTexts == {"todo", "notes on the harvest", "notes on the weather  "}

TrimmedLength(text) == IF text = "todo" THEN 4 ELSE 20

\* the fewest characters of trimmed text processNoteVector embeds
MinNoteLength == 16

\* getBlocksFromFile: each of these texts is one paragraph
BlocksOfText(text) == <<text>>

InitFI ==
    /\ AtRest
    /\ EmptyTables
    /\ fnIn = [fn |-> "processOneFileIntoDatabase"]
    /\ fnOut = [files |-> [p \in Paths |-> ""], notes |-> <<>>, blocks |-> <<>>,
                vectors |-> <<>>, fts_content |-> <<>>, nextId |-> 1, fileOps |-> 0,
                providerWorks |-> TRUE, last |-> [kind |-> "none"]]

\* insertFTSContent: fts_content is an fts3 table, which has no key but its
\* rowid, so INSERT OR REPLACE adds a row
InsertFTSContent(s, id, type, noteId, content, blockId) ==
    [s EXCEPT !.fts_content = Append(@, [id |-> id, type |-> type, note_id |-> noteId,
                                         content |-> content, block_id |-> blockId])]

\* deleteFTSContentForNote; no handler calls it
DeleteFTSContentForNote(s, noteId) ==
    [s EXCEPT !.fts_content = SelectSeq(@, LAMBDA row : row.note_id # noteId)]

\* insertBlocksForNote for the one block of a text: the note's blocks are
\* deleted and the block is inserted under a fresh id
InsertBlocksForNote(s, noteId, text) ==
    [s EXCEPT !.blocks = Append(SelectSeq(@, LAMBDA b : b.note_id # noteId),
                                [id |-> s.nextId, note_id |-> noteId, content |-> text]),
              !.nextId = @ + 1]

\* createVector
StoreVector(s, noteId, blockId, type, text) ==
    [s EXCEPT !.vectors = Append(@, [id |-> s.nextId, note_id |-> noteId,
                                     block_id |-> blockId, type |-> type, text |-> text]),
              !.nextId = @ + 1]

\* processBlockVectors for the note's blocks, the provider working
ProcessBlockVectors(s, noteId) ==
    LET block == SelectSeq(s.blocks, LAMBDA b : b.note_id = noteId)[1]
    IN  InsertFTSContent(StoreVector(s, noteId, block.id, "block", block.content),
                         <<"block", block.id>>, "block", noteId, block.content, block.id)

\* processNoteVector and processBlockVectors of a changed note whose old
\* vectors are deleted: a short note gets no NOTE vector, a failing
\* provider ends processOneFileIntoDatabase in its catch block
ProcessVectors(s, noteId, text) ==
    IF TrimmedLength(text) < MinNoteLength
    THEN IF s.providerWorks THEN ProcessBlockVectors(s, noteId) ELSE s
    ELSE IF ~s.providerWorks THEN s
    ELSE ProcessBlockVectors(
             InsertFTSContent(StoreVector(s, noteId, 0, "note", text),
                              <<"note", noteId>>, "note", noteId, text, 0),
             noteId)

\* the steps of processOneFileIntoDatabase after upsertNote reported a change
ProcessChangedNote(s, noteId, text) ==
    ProcessVectors([InsertBlocksForNote(s, noteId, text) EXCEPT
                       !.vectors = SelectSeq(@, LAMBDA v : v.note_id # noteId)],
                   noteId, text)

\* processOneFileIntoDatabase: upsertNote, and the rest when it reports a change
ProcessOneFileIntoDatabase(s, path) ==
    LET text == s.files[path]
        existing == SelectSeq(s.notes, LAMBDA n : n.path = path)
    IN  IF existing = <<>>
        THEN ProcessChangedNote(
                 [s EXCEPT !.notes = Append(@, [id |-> s.nextId, path |-> path,
                                                text |-> text]),
                           !.nextId = @ + 1],
                 s.nextId, text)
        ELSE IF existing[1].text # text
        THEN ProcessChangedNote(
                 [s EXCEPT !.notes = [i \in 1..Len(@) |->
                                         IF @[i].path = path
                                         THEN [@[i] EXCEPT !.text = text] ELSE @[i]]],
                 existing[1].id, text)
        ELSE s

StepFI(out, kind, path) ==
    /\ fnIn.fn = "processOneFileIntoDatabase"
    /\ fnOut.fileOps < MaxFileOps
    /\ fnOut' = [out EXCEPT !.fileOps = @ + 1,
                            !.last = [kind |-> kind, path |-> path,
                                      providerWorks |-> fnOut.providerWorks]]
    /\ UNCHANGED <<vault, notes, vectors, lshTables, lsh_configs, lsh_hash_functions,
                   lsh_buckets, isOperationInProgress, isSystemValid, task, ops, fnIn>>

\* a file is created or modified: handleFileCreate, handleFileModify
FileWritten ==
    \E path \in Paths, text \in FileTexts :
        /\ fnOut.files[path] # text
        /\ StepFI(ProcessOneFileIntoDatabase([fnOut EXCEPT !.files[path] = text], path),
                  "written", path)

\* a file that has not changed is processed again, as by
\* processAllVaultFilesIntoDatabase
FileProcessedAgain ==
    \E path \in Paths :
        /\ fnOut.files[path] # ""
        /\ StepFI(ProcessOneFileIntoDatabase(fnOut, path), "processedAgain", path)

\* a file is deleted: handleFileDelete removes the note's vectors, its
\* chunks and the note
FileDeleted ==
    \E path \in Paths :
        /\ fnOut.files[path] # ""
        /\ LET existing == SelectSeq(fnOut.notes, LAMBDA n : n.path = path)
               s == [fnOut EXCEPT !.files[path] = ""]
           IN  IF existing = <<>>
               THEN StepFI(s, "deleted", path)
               ELSE StepFI([s EXCEPT !.vectors = SelectSeq(@, LAMBDA v :
                                                      v.note_id # existing[1].id),
                                       !.notes = SelectSeq(@, LAMBDA n : n.path # path)],
                           "deleted", path)

\* the embedding provider starts to fail, or works again
ProviderChanges ==
    /\ fnIn.fn = "processOneFileIntoDatabase"
    /\ fnOut' = [fnOut EXCEPT !.providerWorks = ~@]
    /\ UNCHANGED <<vault, notes, vectors, lshTables, lsh_configs, lsh_hash_functions,
                   lsh_buckets, isOperationInProgress, isSystemValid, task, ops, fnIn>>

NextFI == FileWritten \/ FileProcessedAgain \/ FileDeleted \/ ProviderChanges

SpecFI == InitFI /\ [][NextFI]_vars

\* ------------------------------------------------------------------ C29
\* C29: after handleFileDelete completes for a note, and after a changed
\* note is re-processed, the full-text index holds no entry for content that
\* no longer exists: every entry belongs to a note that is stored, so no
\* search returns a result for a deleted note.
C29_NoFullTextEntryOfDeletedNote ==
    \A i \in 1..Len(fnOut.fts_content) :
        \E j \in 1..Len(fnOut.notes) : fnOut.notes[j].id = fnOut.fts_content[i].note_id

\* ------------------------------------------------------------------ C30
\* C30: ingestion recovers from a provider failure: once a file whose
\* embedding failed is processed again, unchanged, while the provider
\* works, its note has a NOTE vector if its trimmed text has at least 16
\* characters.
C30_ReprocessingEmbedsAfterFailure ==
    (fnOut.last.kind = "processedAgain" /\ fnOut.last.providerWorks) =>
        \A j \in 1..Len(fnOut.notes) :
            (/\ fnOut.notes[j].path = fnOut.last.path
             /\ TrimmedLength(fnOut.notes[j].text) >= MinNoteLength) =>
                \E i \in 1..Len(fnOut.vectors) :
                    /\ fnOut.vectors[i].note_id = fnOut.notes[j].id
                    /\ fnOut.vectors[i].type = "note"

====
